---- MODULE Spec2Model ----
(***************************************************************************)
(* Verification model of katzenschreck-fcats (package cat_detector).       *)
(*                                                                         *)
(* Three specifications share this module:                                 *)
(*   SpecReader  - RTSPStreamReader in continuous mode: the acquisition    *)
(*                 thread (_read_loop), a client calling                   *)
(*                 get_latest_frame() and a caller of stop().              *)
(*   Spec        - StreamProcessor.run with _process_detections, the       *)
(*                 periodic snapshot and the two background workers.       *)
(*   SpecOverlap - ObjectDetector.is_in_ignore_zone as a pure function.    *)
(* Each specification leaves the variables of the others at their idle     *)
(* values.                                                                 *)
(***************************************************************************)
EXTENDS Integers, Sequences, FiniteSets, TLC

(***************************************************************************)
(* Bounds of the model (not program constants).                            *)
(***************************************************************************)
MaxFrames == 2      \* successful decodes modelled
MaxClock  == 2      \* ticks of time.time() modelled in SpecReader
MaxReads  == 2      \* completed get_latest_frame() calls modelled
MaxOpens  == 1      \* cv2.VideoCapture constructions of _read_loop modelled
MaxFreshCalls == 2  \* get_fresh_frame() calls that construct a VideoCapture
GridMax   == 3      \* ignore-zone coordinates are k / GridMax, k in 0..GridMax
MaxIterations == 6  \* frames processed by run() with monitoring disabled
MaxMonitoredIterations == 2  \* frames processed by run() with monitoring
                             \* enabled (the detection history grows with
                             \* every published detection)
MaxDetections == 2  \* detections returned for one frame
MaxCapOpens == 1    \* captures constructed by run()
MaxFiles == 3       \* .jpg files in the results folder before the first pass
MaxTasks == 1       \* FileWrite tasks taken by _file_worker
MaxUpdates == 3     \* update calls made on the MonitoringCollector
MaxHistoryArg == 2  \* largest max_history given to MonitoringCollector
MaxCollectorReads == 2  \* read accessor calls made by an observer

(***************************************************************************)
(* Program constants of RTSPStreamReader._read_loop.  Delays are kept in   *)
(* units of 1/64 s so that every value of retry_delay * 1.5 is an integer. *)
(***************************************************************************)
DelayUnit       == 64
initial_retry_delay == 2 * DelayUnit
max_retry_delay == 30 * DelayUnit
max_failures    == 10

None == 0           \* Python None for handles

VARIABLES
    \* ---- RTSPStreamReader (rtsp_stream_reader.py) ----
    mode,                 \* self.mode
    _lock,                \* owner of self._lock: "free", "acq", "client"
    _frame,               \* self._frame: <<>> is None, <<f>> is (True, f)
    _frame_timestamp,     \* self._frame_timestamp
    _frame_number,        \* self._frame_number
    _frames_read,         \* self._frames_read
    _frames_dropped,      \* self._frames_dropped
    _stopped,             \* self._stopped
    _connected,           \* self._connected
    _cap,                 \* self._cap: None or the id of a VideoCapture
    _last_error,          \* self._last_error: "" is None
    retry_delay,          \* local of _read_loop
    consecutive_failures, \* local of _read_loop
    local_frame,          \* local `frame` of _read_loop between retrieve and write
    read_pc,              \* position of the acquisition thread
    client_pc,            \* position of the get_latest_frame() caller
    client_frame,         \* local `success, frame` of get_latest_frame
    result,               \* last value returned by get_latest_frame()
    stop_pc,              \* position of the stop() caller
    fresh_pc,             \* position of the get_fresh_frame() caller
    fresh_cap,            \* local `cap` of get_fresh_frame
    fresh_ret,            \* local `ret` of get_fresh_frame
    fresh_result,         \* last value returned by get_fresh_frame():
                          \* <<>> is None, else <<frame_number>>
    isOpened,             \* ids of VideoCapture objects that are open
    now,                  \* time.time()
    \* ---- history variables of the reader ----
    opens,                \* VideoCapture objects constructed so far
    decoded,              \* frames decoded so far (identity of a frame)
    written,              \* triples stored by completed slot writes
    open_succeeded,       \* some VideoCapture of _read_loop came back open
    open_failed,          \* some open attempt of _read_loop failed
    returned              \* non-None results of get_latest_frame, in order

readerVars == <<mode, _lock, _frame, _frame_timestamp, _frame_number,
                _frames_read, _frames_dropped, _stopped, _connected, _cap,
                _last_error, retry_delay, consecutive_failures, local_frame,
                read_pc, client_pc, client_frame, result, stop_pc, fresh_pc,
                fresh_cap, fresh_ret, fresh_result, isOpened,
                now, opens, decoded, written, open_succeeded, open_failed,
                returned>>

VARIABLES
    \* ---- Config (config.py) ----
    confidence_threshold, \* config.confidence_threshold, in percent
    ignore_zone,          \* config.ignore_zone: <<>> is None, else 4 tenths
    monitoring_enabled,   \* config.monitoring_enabled
    \* ---- StreamProcessor (stream_processor.py) ----
    last_frame_save_time, \* self.last_frame_save_time
    db_queue,             \* self.db_queue, queue.Queue(maxsize=10)
    file_queue,           \* self.file_queue, queue.Queue(maxsize=10)
    _total_frames_processed, \* self._total_frames_processed
    run_pc,               \* position of run()
    cap_isOpened,         \* cap.isOpened() of the capture of run()
    run_retry_delay,      \* local retry_delay of run()
    run_consecutive_failures, \* local consecutive_failures of run()
    frame_read_failures,  \* local frame_read_failures of run()
    detections,           \* the detections of the batch that the for loop of
                          \* _process_detections has not finished, current first
    det_idx,              \* position of the current detection in the batch
    current_time,         \* time.time() as seen by the processor
    \* ---- MonitoringCollector (monitoring_collector.py) ----
    _detections_history,  \* self._detections_history (when monitoring is on)
    \* ---- history variables of the processor ----
    batch_size,           \* length of the batch of the current iteration
    surviving,            \* positions in the batch of the detections with
                          \* confidence above the threshold and outside the zone
    events,               \* alert and enqueue events of the current iteration
    found_full,           \* an enqueue of the current iteration met a full queue
    skipped_equal,        \* the filter skipped, in the current iteration, a
                          \* detection whose confidence equals the threshold
    cap_opens             \* captures constructed by run() so far

procVars == <<confidence_threshold, ignore_zone, monitoring_enabled,
              last_frame_save_time, db_queue, file_queue,
              _total_frames_processed, run_pc, cap_isOpened,
              run_retry_delay, run_consecutive_failures,
              frame_read_failures, detections, det_idx,
              current_time, _detections_history, batch_size, surviving,
              events, found_full, skipped_equal, cap_opens>>

VARIABLES
    \* ---- one call of ObjectDetector.is_in_ignore_zone ----
    ov_bbox,              \* argument bbox, in pixels
    ov_zone,              \* argument ignore_zone
    ov_pc,                \* "call" before the call, "done" after it
    ov_result,            \* value returned by is_in_ignore_zone
    ov_swapped            \* _check_box_overlap with its rectangles swapped

ovVars == <<ov_bbox, ov_zone, ov_pc, ov_result, ov_swapped>>

VARIABLES
    \* ---- the file system as seen by cleanup_results_folder ----
    ctime,                \* os.path.getctime of the files present at the start
    fsize,                \* disk units freed by deleting each of them
    folder,               \* the .jpg files in results_folder
    used,                 \* shutil.disk_usage("/").used, in disk units
    \* ---- StreamProcessor._file_worker with cleanup_results_folder ----
    fw_pc,                \* position of the file worker
    fw_tasks,             \* tasks taken from file_queue so far
    cl_images,            \* local `images` of cleanup_results_folder
    cl_idx,               \* position of the for loop in `images`
    \* ---- history variables of the current pass ----
    cl_checked,           \* the pass of the current task has read the usage
    cl_start,             \* disk units in use when the pass read the usage
    cl_deleted,           \* files removed by the pass, in order
    cl_failed             \* files whose os.remove raised OSError in the pass

cleanVars == <<ctime, fsize, folder, used, fw_pc, fw_tasks, cl_images,
               cl_idx, cl_checked, cl_start, cl_deleted, cl_failed>>

VARIABLES
    \* ---- a MonitoringCollector on its own (monitoring_collector.py) ----
    self_max_history,     \* self.max_history
    _processing_times,    \* self._processing_times
    _fps_history,         \* self._fps_history, entries <<1, t>> for 1.0 / t
    _frame_age_history,   \* self._frame_age_history
    mc_detections_history, \* self._detections_history: references to dicts
    _timing_breakdown,    \* self._timing_breakdown
    _frame_age,           \* self._frame_age
    _frame_count,         \* self._frame_count
    mc_total_frames_processed, \* self._total_frames_processed
    dicts,                \* the detection dicts allocated so far
    lists,                \* the bbox lists allocated so far
    \* ---- an observer of the collector ----
    obs_detections,       \* the list get_detections() returned last
    obs_timing,           \* the dict get_timing_breakdown() returned last
    mc_reads,             \* read accessor calls so far
    \* ---- history variables of the collector ----
    mc_updates,           \* update calls so far
    arrived               \* per history, everything ever appended to it

monVars == <<self_max_history, _processing_times, _fps_history,
             _frame_age_history, mc_detections_history, _timing_breakdown,
             _frame_age, _frame_count, mc_total_frames_processed, dicts,
             lists, obs_detections, obs_timing, mc_reads, mc_updates,
             arrived>>

(***************************************************************************)
(* The frame buffers of StreamProcessor: the frame held by run(), the      *)
(* annotated frame of _process_detections, the buffers of the items on the *)
(* two queues, and the two background workers (stream_processor.py).       *)
(***************************************************************************)
VARIABLES
    bf_heap,            \* the frame buffers allocated so far, by reference
    bf_frame,           \* `frame` of run(): a reference, or None
    bf_annotated,       \* `annotated_frame` of _process_detections
    bf_db_queue,        \* self.db_queue: the buffer references of its items
    bf_file_queue,      \* self.file_queue: the buffer references of its items
    bf_db_unfinished,   \* self.db_queue.unfinished_tasks
    bf_file_unfinished, \* self.file_queue.unfinished_tasks
    bf_pc,              \* position of run() in its iteration
    bf_iter,            \* iterations of run() so far
    bf_dets,            \* detections of this iteration still to be processed
    dbw_pc,             \* position of _db_worker
    dbw_task,           \* `frame` of the task _db_worker holds, or None
    fw2_pc,             \* position of _file_worker
    fw2_task,           \* `annotated_frame` of the task _file_worker holds
    bf_got,             \* history: the references each worker dequeued
    bf_attempted,       \* history: references handed to a persistence call
    bf_outcome          \* history: per worker, a failure and a success after it

bufVars == <<bf_heap, bf_frame, bf_annotated, bf_db_queue, bf_file_queue,
             bf_db_unfinished, bf_file_unfinished, bf_pc, bf_iter, bf_dets,
             dbw_pc, dbw_task, fw2_pc, fw2_task, bf_got, bf_attempted,
             bf_outcome>>

(***************************************************************************)
(* MQTTHandler (mqtt_handler.py): the connection flag set by the callbacks *)
(* of the network thread, one caller of publish_detection and the ping     *)
(* thread.                                                                 *)
(***************************************************************************)
VARIABLES
    mq_connected,       \* self.connected
    mq_pc,              \* position of the caller in publish_detection
    mq_class_name,      \* argument class_name of the call in progress
    mq_rc,              \* result.rc of client.publish, or None
    mq_printed,         \* the last message publish_detection printed
    mq_outbox,          \* the last message handed to client.publish
    mq_attempts,        \* history: client.publish calls of this call
    mq_ending,          \* history: how the last call ended
    mq_case,            \* history: what client.publish did in this call
    mq_calls,           \* history: calls of publish_detection so far
    mq_pings            \* history: passes of the ping loop so far

mqttVars == <<mq_connected, mq_pc, mq_class_name, mq_rc, mq_printed,
              mq_outbox, mq_attempts, mq_ending, mq_case, mq_calls,
              mq_pings>>

(***************************************************************************)
(* The dynamic frame skipping of StreamProcessor.run                       *)
(* (stream_processor.py, lines 337-346 and 441-443).                       *)
(***************************************************************************)
VARIABLES
    processing_times,   \* self.processing_times, in ticks
    max_frames_to_skip, \* `max_frames_to_skip` of the iteration
    sk_pc,              \* position of run() in its iteration
    sk_latency,         \* the latency of the detector, in ticks
    sk_all              \* history: every duration recorded, in order

skipVars == <<processing_times, max_frames_to_skip, sk_pc, sk_latency,
              sk_all>>

(***************************************************************************)
(* The periodic snapshot of StreamProcessor                                *)
(* (stream_processor.py, lines 195-215) with a clock that advances.        *)
(***************************************************************************)
VARIABLES
    sn_now,             \* time.time(), in seconds
    sn_last_frame_save_time,    \* self.last_frame_save_time
    sn_db_queue,        \* self.db_queue: its items, oldest first
    sn_pc,              \* position of run() in its iteration
    sn_half_hours,      \* history: half hours that have gone by
    sn_enqueued_at,     \* history: the times of the snapshot enqueues
    sn_due_not_enqueued \* history: why a due snapshot was not enqueued

snapVars == <<sn_now, sn_last_frame_save_time, sn_db_queue, sn_pc,
              sn_half_hours, sn_enqueued_at, sn_due_not_enqueued>>

(***************************************************************************)
(* Calls of a read method of RTSPStreamReader that the mode of the reader  *)
(* does not allow (rtsp_stream_reader.py, lines 193-194 and 259-260).      *)
(***************************************************************************)
VARIABLES
    raised              \* history: the methods that raised RuntimeError

modeVars == <<raised>>

(***************************************************************************)
(* The reconnection backoff of RTSPStreamReader._read_loop                 *)
(* (rtsp_stream_reader.py, lines 94-125 and 171-182), with the reading of  *)
(* a connection as one step.                                               *)
(***************************************************************************)
VARIABLES
    bk_retry_delay,     \* `retry_delay` of _read_loop, in delay units
    bk_pc,              \* position of _read_loop
    bk_stopped,         \* self._stopped
    bk_failures,        \* history: failures since the last successful open
    bk_waited           \* history: <<k, delay>> of the last wait

backoffVars == <<bk_retry_delay, bk_pc, bk_stopped, bk_failures, bk_waited>>

(***************************************************************************)
(* The reconnection of StreamProcessor.run (stream_processor.py, lines     *)
(* 280-317, 353-379 and 452-455), with the work on a frame that was read   *)
(* as part of the step that read it.                                       *)
(***************************************************************************)
VARIABLES
    rt_pc,                  \* position of run()
    rt_retry_delay,         \* `retry_delay`, in delay units
    rt_consecutive_failures, \* `consecutive_failures`
    rt_frame_read_failures, \* `frame_read_failures`
    rt_cap_isOpened,        \* cap.isOpened() of the current capture
    rt_frames,              \* history: frames read on this connection
    rt_limit_hit,           \* history: a connection ended at the limit
    rt_slept                \* history: <<failures, delay>> of the last wait

retryVars == <<rt_pc, rt_retry_delay, rt_consecutive_failures,
               rt_frame_read_failures, rt_cap_isOpened, rt_frames,
               rt_limit_hit, rt_slept>>

(***************************************************************************)
(* The queue status reports of StreamProcessor (stream_processor.py, lines *)
(* 78-152 and 429-439) and MonitoringCollector.update_queue_status         *)
(* (monitoring_collector.py, lines 153-167).  A record indexed by "db" and *)
(* "file" holds one value for _db_worker and db_queue and one for          *)
(* _file_worker and file_queue.                                            *)
(***************************************************************************)
VARIABLES
    st_queue,           \* qsize() of db_queue and of file_queue
    st_unfinished,      \* unfinished_tasks of each queue
    st_pc,              \* position of each worker
    st_wait,            \* `queue_wait_time` of each worker, in ticks
    queue_status,       \* the four fields update_queue_status assigns
    st_reported,        \* history: the item in flight has been reported
    st_dequeued,        \* history: items each worker has dequeued
    st_done,            \* history: task_done() calls that returned
    st_puts             \* history: items put on each queue

statusVars == <<st_queue, st_unfinished, st_pc, st_wait, queue_status,
                st_reported, st_dequeued, st_done, st_puts>>

(***************************************************************************)
(* The locks of the shared resources: the lock of the frame slot           *)
(* (rtsp_stream_reader.py), the mutex of each work queue                   *)
(* (stream_processor.py) and the lock of MonitoringCollector               *)
(* (monitoring_collector.py).                                              *)
(***************************************************************************)
VARIABLES
    lk_holder,          \* for each lock the activity that holds it
    lk_todo             \* for each activity what is left of its call: the
                        \* acquisitions and releases still to be made

lockVars == <<lk_holder, lk_todo>>

(***************************************************************************)
(* MonitoringCollector.get_all_data (monitoring_collector.py, lines        *)
(* 276-305) and the status fields it reads.                                *)
(***************************************************************************)
VARIABLES
    _frames_skipped,    \* self._frames_skipped
    _is_streaming,      \* self._is_streaming
    ad_pc,              \* position of a get_all_data() call
    ad_status,          \* what its get_status() returned
    ad_metrics,         \* what its get_metrics() returned
    all_data            \* the last value get_all_data() returned

allDataVars == <<_frames_skipped, _is_streaming, ad_pc, ad_status,
                 ad_metrics, all_data>>

vars == <<readerVars, procVars, ovVars, cleanVars, monVars, bufVars,
          mqttVars, skipVars, snapVars, modeVars, backoffVars, retryVars,
          statusVars, lockVars, allDataVars>>

notReaderVars == <<procVars, ovVars, cleanVars, monVars, bufVars, mqttVars,
                   skipVars, snapVars, modeVars, backoffVars, retryVars,
                   statusVars, lockVars, allDataVars>>
notProcVars   == <<readerVars, ovVars, cleanVars, monVars, bufVars,
                   mqttVars, skipVars, snapVars, modeVars, backoffVars,
                   retryVars, statusVars, lockVars, allDataVars>>
notOvVars     == <<readerVars, procVars, cleanVars, monVars, bufVars,
                   mqttVars, skipVars, snapVars, modeVars, backoffVars,
                   retryVars, statusVars, lockVars, allDataVars>>
notCleanVars  == <<readerVars, procVars, ovVars, monVars, bufVars,
                   mqttVars, skipVars, snapVars, modeVars, backoffVars,
                   retryVars, statusVars, lockVars, allDataVars>>
notMonVars    == <<readerVars, procVars, ovVars, cleanVars, bufVars,
                   mqttVars, skipVars, snapVars, modeVars, backoffVars,
                   retryVars, statusVars, lockVars, allDataVars>>
notBufVars    == <<readerVars, procVars, ovVars, cleanVars, monVars,
                   mqttVars, skipVars, snapVars, modeVars, backoffVars,
                   retryVars, statusVars, lockVars, allDataVars>>
notMqttVars == <<readerVars, procVars, ovVars, cleanVars, monVars, bufVars,
                 skipVars, snapVars, modeVars, backoffVars, retryVars,
                 statusVars, lockVars, allDataVars>>
notSkipVars == <<readerVars, procVars, ovVars, cleanVars, monVars, bufVars,
                 mqttVars, snapVars, modeVars, backoffVars, retryVars,
                 statusVars, lockVars, allDataVars>>
notSnapVars == <<readerVars, procVars, ovVars, cleanVars, monVars, bufVars,
                 mqttVars, skipVars, modeVars, backoffVars, retryVars,
                 statusVars, lockVars, allDataVars>>
notModeVars == <<readerVars, procVars, ovVars, cleanVars, monVars, bufVars,
                 mqttVars, skipVars, snapVars, backoffVars, retryVars,
                 statusVars, lockVars, allDataVars>>
notBackoffVars == <<readerVars, procVars, ovVars, cleanVars, monVars,
                    bufVars, mqttVars, skipVars, snapVars, modeVars,
                    retryVars, statusVars, lockVars, allDataVars>>
notRetryVars == <<readerVars, procVars, ovVars, cleanVars, monVars,
                  bufVars, mqttVars, skipVars, snapVars, modeVars,
                  backoffVars, statusVars, lockVars, allDataVars>>
notStatusVars == <<readerVars, procVars, ovVars, cleanVars, monVars,
                   bufVars, mqttVars, skipVars, snapVars, modeVars,
                   backoffVars, retryVars, lockVars, allDataVars>>
notLockVars == <<readerVars, procVars, ovVars, cleanVars, monVars, bufVars,
                 mqttVars, skipVars, snapVars, modeVars, backoffVars,
                 retryVars, statusVars, allDataVars>>
notAllDataVars == <<readerVars, procVars, ovVars, cleanVars, monVars,
                    bufVars, mqttVars, skipVars, snapVars, modeVars,
                    backoffVars, retryVars, statusVars, lockVars>>

(***************************************************************************)
(* RTSPStreamReader.__init__                                               *)
(***************************************************************************)
InitReader ==
    /\ mode \in {"continuous", "reconnect_per_frame"}
    /\ _lock = "free"
    /\ _frame = <<>>
    /\ _frame_timestamp = 0
    /\ _frame_number = 0
    /\ _frames_read = 0
    /\ _frames_dropped = 0
    /\ _stopped = FALSE
    /\ _connected = FALSE
    /\ _cap = None
    /\ _last_error = ""
    /\ retry_delay = initial_retry_delay
    /\ consecutive_failures = 0
    /\ local_frame = 0
    /\ read_pc = IF mode = "continuous" THEN "loop" ELSE "no_thread"
    /\ fresh_pc = "idle"
    /\ fresh_cap = None
    /\ fresh_ret = FALSE
    /\ fresh_result = <<>>
    /\ client_pc = "idle"
    /\ client_frame = 0
    /\ result = <<>>
    /\ stop_pc = "idle"
    /\ isOpened = {}
    /\ now = 1
    /\ opens = 0
    /\ decoded = 0
    /\ written = {}
    /\ open_succeeded = FALSE
    /\ open_failed = FALSE
    /\ returned = <<>>

Min(a, b) == IF a < b THEN a ELSE b

\* a backoff without the cap
NextRetryDelay_Uncapped(d) == (d * 3) \div 2

\* retry_delay = min(retry_delay * 1.5, max_retry_delay)
NextRetryDelay(d) == Min((d * 3) \div 2, max_retry_delay)

freshVars  == <<fresh_pc, fresh_cap, fresh_ret, fresh_result>>

\* a release that leaves the handle open
release_noop(handles, cap) == handles

\* cv2.VideoCapture.release() of the object `cap` (lines 165 and 177):
\* the transport handle is closed.  The same happens in the destructor of
\* the object when the attribute or local that holds its only reference
\* is rebound or goes out of scope.
release(handles, cap) == handles \ {cap}

\* a slot access that does not wait for the lock
LockFree_NoExclusion == TRUE

\* the mutual exclusion of `with self._lock`
LockFree == _lock = "free"

openHist   == <<open_succeeded, open_failed>>
slotVars   == <<_frame, _frame_timestamp, _frame_number, _frames_read,
                _frames_dropped>>
clientVars == <<client_pc, client_frame, result, returned>>
threadVars == <<retry_delay, consecutive_failures, local_frame, read_pc>>

(***************************************************************************)
(* RTSPStreamReader._read_loop, one action per statement group.            *)
(***************************************************************************)

\* a loop head that does not test the stop flag
ReadLoop_Head_NoStopTest ==
    /\ read_pc = "loop"
    /\ read_pc' = "open"
    /\ UNCHANGED <<mode, freshVars, openHist, _lock, slotVars, _stopped, _connected, _cap,
                   _last_error, retry_delay, consecutive_failures,
                   local_frame, clientVars, stop_pc, isOpened, now, opens,
                   decoded, written>>
    /\ UNCHANGED notReaderVars

\* `while not self._stopped:` (line 97)
ReadLoop_Head ==
    /\ read_pc = "loop"
    /\ read_pc' = IF _stopped THEN "done" ELSE "open"
    /\ UNCHANGED <<mode, freshVars, openHist, _lock, slotVars, _stopped, _connected, _cap,
                   _last_error, retry_delay, consecutive_failures,
                   local_frame, clientVars, stop_pc, isOpened, now, opens,
                   decoded, written>>
    /\ UNCHANGED notReaderVars

\* `self._cap = cv2.VideoCapture(...)` (lines 99-114); the constructor
\* returns an object that is open or not, or raises.  The assignment drops
\* the reference to the object self._cap held before.
ReadLoop_Open ==
    /\ read_pc = "open"
    /\ opens < MaxOpens
    /\ \E outcome \in {"opened", "closed", "raise"} :
         IF outcome = "raise"
         THEN /\ read_pc' = "except"
              /\ open_failed' = TRUE
              /\ UNCHANGED <<_cap, isOpened, opens, open_succeeded>>
         ELSE /\ opens' = opens + 1
              /\ _cap' = opens + 1
              /\ isOpened' = IF outcome = "opened"
                             THEN release(isOpened, _cap) \cup {opens + 1}
                             ELSE release(isOpened, _cap)
              /\ open_succeeded' = (open_succeeded \/ outcome = "opened")
              /\ open_failed' = (open_failed \/ outcome = "closed")
              /\ read_pc' = "check_opened"
    /\ UNCHANGED <<mode, freshVars, _lock, slotVars, _stopped, _connected, _last_error,
                   retry_delay, consecutive_failures, local_frame,
                   clientVars, stop_pc, now, decoded, written>>
    /\ UNCHANGED notReaderVars

\* the same statement once MaxOpens attempts have been made: every
\* further attempt raises
ReadLoop_OpenExhausted ==
    /\ read_pc = "open"
    /\ opens >= MaxOpens
    /\ read_pc' = "except"
    /\ open_failed' = TRUE
    /\ UNCHANGED <<mode, freshVars, open_succeeded, _lock, slotVars, _stopped, _connected, _cap,
                   _last_error, retry_delay, consecutive_failures,
                   local_frame, clientVars, stop_pc, isOpened, now, opens,
                   decoded, written>>
    /\ UNCHANGED notReaderVars

\* an open failure that leaves no error message
open_error_message_empty == ""

\* the message stored for a capture that did not open (line 117)
open_error_message == "Failed to open RTSP stream"

\* `if not self._cap.isOpened(): ... else: self._connected = True ...`
\* (lines 116-129); self._cap may have been set to None by stop().
ReadLoop_CheckOpened ==
    /\ read_pc = "check_opened"
    /\ IF _cap = None
       THEN /\ read_pc' = "except"
            /\ UNCHANGED <<_last_error, _connected, retry_delay,
                           consecutive_failures>>
       ELSE IF _cap \notin isOpened
       THEN /\ _last_error' = open_error_message
            /\ read_pc' = "sleep"
            /\ UNCHANGED <<_connected, retry_delay, consecutive_failures>>
       ELSE /\ _connected' = TRUE
            /\ retry_delay' = initial_retry_delay
            /\ consecutive_failures' = 0
            /\ read_pc' = "inner"
            /\ UNCHANGED _last_error
    /\ UNCHANGED <<mode, freshVars, openHist, _lock, slotVars, _stopped, _cap, local_frame,
                   clientVars, stop_pc, isOpened, now, opens, decoded,
                   written>>
    /\ UNCHANGED notReaderVars

\* `time.sleep(retry_delay)` (lines 119 and 181): the thread is suspended
\* until the whole delay has passed; nothing else ends the call
ReadLoop_SleepElapse ==
    /\ read_pc = "sleep"
    /\ read_pc' = "wake"
    /\ UNCHANGED <<mode, freshVars, openHist, _lock, slotVars, _stopped, _connected, _cap,
                   _last_error, retry_delay, consecutive_failures,
                   local_frame, clientVars, stop_pc, isOpened, now, opens,
                   decoded, written>>
    /\ UNCHANGED notReaderVars

\* the return of time.sleep and
\* `retry_delay = min(retry_delay * 1.5, max_retry_delay)` (lines 120-121
\* and 182)
ReadLoop_Sleep ==
    /\ read_pc = "wake"
    /\ retry_delay' = NextRetryDelay(retry_delay)
    /\ read_pc' = "loop"
    /\ UNCHANGED <<mode, freshVars, openHist, _lock, slotVars, _stopped, _connected, _cap,
                   _last_error, consecutive_failures, local_frame,
                   clientVars, stop_pc, isOpened, now, opens, decoded,
                   written>>
    /\ UNCHANGED notReaderVars

\* `while not self._stopped and self._cap.isOpened():` (line 131)
ReadLoop_InnerHead ==
    /\ read_pc = "inner"
    /\ read_pc' = IF _stopped THEN "cleanup"
                  ELSE IF _cap = None THEN "except"
                  ELSE IF _cap \notin isOpened THEN "cleanup"
                  ELSE "grab"
    /\ UNCHANGED <<mode, freshVars, openHist, _lock, slotVars, _stopped, _connected, _cap,
                   _last_error, retry_delay, consecutive_failures,
                   local_frame, clientVars, stop_pc, isOpened, now, opens,
                   decoded, written>>
    /\ UNCHANGED notReaderVars

\* a failed grab or decode that never ends the inner loop
ReadFailure_NoLimit ==
    /\ consecutive_failures' = consecutive_failures + 1
    /\ read_pc' = "inner"

\* a failed grab or decode: lines 134-139 and 158-161
ReadFailure ==
    /\ consecutive_failures' = consecutive_failures + 1
    /\ read_pc' = IF consecutive_failures + 1 >= max_failures
                  THEN "cleanup" ELSE "inner"

\* `if not self._cap.grab():` (lines 133-139)
ReadLoop_Grab ==
    /\ read_pc = "grab"
    /\ IF _cap = None
       THEN read_pc' = "except" /\ UNCHANGED consecutive_failures
       ELSE \E outcome \in {"ok", "fail", "raise"} :
              CASE outcome = "ok" /\ _cap \in isOpened ->
                     read_pc' = "retrieve" /\ UNCHANGED consecutive_failures
                [] outcome = "raise" ->
                     read_pc' = "except" /\ UNCHANGED consecutive_failures
                [] OTHER -> ReadFailure
    /\ UNCHANGED <<mode, freshVars, openHist, _lock, slotVars, _stopped, _connected, _cap,
                   _last_error, retry_delay, local_frame, clientVars,
                   stop_pc, isOpened, now, opens, decoded, written>>
    /\ UNCHANGED notReaderVars

\* `ret, frame = self._cap.retrieve()` and `if ret and frame is not None`
\* (lines 142-144, 157-161)
ReadLoop_Retrieve ==
    /\ read_pc = "retrieve"
    /\ IF _cap = None
       THEN /\ read_pc' = "except"
            /\ UNCHANGED <<consecutive_failures, local_frame, decoded>>
       ELSE \E outcome \in {"ok", "fail"} :
              IF outcome = "ok" /\ _cap \in isOpened /\ decoded < MaxFrames
              THEN /\ decoded' = decoded + 1
                   /\ local_frame' = decoded + 1
                   /\ read_pc' = "lock"
                   /\ UNCHANGED consecutive_failures
              ELSE /\ ReadFailure
                   /\ UNCHANGED <<local_frame, decoded>>
    /\ UNCHANGED <<mode, freshVars, openHist, _lock, slotVars, _stopped, _connected, _cap,
                   _last_error, retry_delay, clientVars, stop_pc, isOpened,
                   now, opens, written>>
    /\ UNCHANGED notReaderVars

\* a slot update that is made without taking the lock
ReadLoop_Acquire_NoLock ==
    /\ read_pc = "lock"
    /\ UNCHANGED _lock
    /\ read_pc' = "w_dropped"
    /\ UNCHANGED <<mode, freshVars, openHist, slotVars, _stopped, _connected, _cap, _last_error,
                   retry_delay, consecutive_failures, local_frame,
                   clientVars, stop_pc, isOpened, now, opens, decoded,
                   written>>
    /\ UNCHANGED notReaderVars

\* `with self._lock:` entered (line 146)
ReadLoop_Acquire ==
    /\ read_pc = "lock"
    /\ LockFree
    /\ _lock' = "acq"
    /\ read_pc' = "w_dropped"
    /\ UNCHANGED <<mode, freshVars, openHist, slotVars, _stopped, _connected, _cap, _last_error,
                   retry_delay, consecutive_failures, local_frame,
                   clientVars, stop_pc, isOpened, now, opens, decoded,
                   written>>
    /\ UNCHANGED notReaderVars

\* `if self._frame is not None and self._frame[0]: self._frames_dropped += 1`
ReadLoop_CountDropped ==
    /\ read_pc = "w_dropped"
    /\ _frames_dropped' = IF _frame # <<>> THEN _frames_dropped + 1
                          ELSE _frames_dropped
    /\ read_pc' = "w_frame"
    /\ UNCHANGED <<mode, freshVars, openHist, _lock, _frame, _frame_timestamp, _frame_number,
                   _frames_read, _stopped, _connected, _cap, _last_error,
                   retry_delay, consecutive_failures, local_frame,
                   clientVars, stop_pc, isOpened, now, opens, decoded,
                   written>>
    /\ UNCHANGED notReaderVars

\* the assignment `self._frame = (True, frame.copy())`: the slot is replaced
StoreFrame(slot, f) == <<f>>

\* line 151
ReadLoop_WriteFrame ==
    /\ read_pc = "w_frame"
    /\ _frame' = StoreFrame(_frame, local_frame)
    /\ read_pc' = "w_timestamp"
    /\ UNCHANGED <<mode, freshVars, openHist, _lock, _frame_timestamp, _frame_number,
                   _frames_read, _frames_dropped, _stopped, _connected,
                   _cap, _last_error, retry_delay, consecutive_failures,
                   local_frame, clientVars, stop_pc, isOpened, now, opens,
                   decoded, written>>
    /\ UNCHANGED notReaderVars

\* `self._frame_timestamp = time.time()` (line 152)
ReadLoop_WriteTimestamp ==
    /\ read_pc = "w_timestamp"
    /\ _frame_timestamp' = now
    /\ read_pc' = "w_number"
    /\ UNCHANGED <<mode, freshVars, openHist, _lock, _frame, _frame_number, _frames_read,
                   _frames_dropped, _stopped, _connected, _cap, _last_error,
                   retry_delay, consecutive_failures, local_frame,
                   clientVars, stop_pc, isOpened, now, opens, decoded,
                   written>>
    /\ UNCHANGED notReaderVars

\* `self._frame_number += 1` (line 153); the triple of this write is complete
ReadLoop_WriteNumber ==
    /\ read_pc = "w_number"
    /\ _frame_number' = _frame_number + 1
    /\ written' = written \cup
                    {<<local_frame, _frame_timestamp, _frame_number + 1>>}
    /\ read_pc' = "w_read"
    /\ UNCHANGED <<mode, freshVars, openHist, _lock, _frame, _frame_timestamp, _frames_read,
                   _frames_dropped, _stopped, _connected, _cap, _last_error,
                   retry_delay, consecutive_failures, local_frame,
                   clientVars, stop_pc, isOpened, now, opens, decoded>>
    /\ UNCHANGED notReaderVars

\* the end of the slot update without leaving the with block
ReadLoop_Release_KeepLock ==
    /\ read_pc = "w_read"
    /\ _frames_read' = _frames_read + 1
    /\ consecutive_failures' = 0
    /\ read_pc' = "inner"
    /\ UNCHANGED <<mode, freshVars, openHist, _lock, _frame, _frame_timestamp, _frame_number,
                   _frames_dropped, _stopped, _connected, _cap, _last_error,
                   retry_delay, local_frame, clientVars, stop_pc, isOpened,
                   now, opens, decoded, written>>
    /\ UNCHANGED notReaderVars

\* `self._frames_read += 1`, end of the with block, and
\* `consecutive_failures = 0` (lines 154-156)
ReadLoop_Release ==
    /\ read_pc = "w_read"
    /\ _frames_read' = _frames_read + 1
    /\ _lock' = "free"
    /\ consecutive_failures' = 0
    /\ read_pc' = "inner"
    /\ UNCHANGED <<mode, freshVars, openHist, _frame, _frame_timestamp, _frame_number,
                   _frames_dropped, _stopped, _connected, _cap, _last_error,
                   retry_delay, local_frame, clientVars, stop_pc, isOpened,
                   now, opens, decoded, written>>
    /\ UNCHANGED notReaderVars

\* `if self._cap:` (line 164)
ReadLoop_CleanupCheck ==
    /\ read_pc = "cleanup"
    /\ read_pc' = IF _cap = None THEN "cleanup_none" ELSE "cleanup_release"
    /\ UNCHANGED <<mode, freshVars, openHist, _lock, slotVars, _stopped, _connected, _cap,
                   _last_error, retry_delay, consecutive_failures,
                   local_frame, clientVars, stop_pc, isOpened, now, opens,
                   decoded, written>>
    /\ UNCHANGED notReaderVars

\* `self._cap.release()` (line 165); self._cap is read again and may have
\* been set to None by stop(), which raises AttributeError
ReadLoop_CleanupRelease ==
    /\ read_pc = "cleanup_release"
    /\ IF _cap = None
       THEN read_pc' = "except" /\ UNCHANGED isOpened
       ELSE /\ isOpened' = release(isOpened, _cap)
            /\ read_pc' = "cleanup_none"
    /\ UNCHANGED <<mode, freshVars, openHist, _lock, slotVars, _stopped, _connected, _cap,
                   _last_error, retry_delay, consecutive_failures,
                   local_frame, clientVars, stop_pc, now, opens, decoded,
                   written>>
    /\ UNCHANGED notReaderVars

\* `self._cap = None; self._connected = False` (lines 166-168)
ReadLoop_CleanupDisconnect ==
    /\ read_pc = "cleanup_none"
    /\ _cap' = None
    /\ isOpened' = release(isOpened, _cap)
    /\ _connected' = FALSE
    /\ read_pc' = "loop"
    /\ UNCHANGED <<mode, freshVars, openHist, _lock, slotVars, _stopped, _last_error,
                   retry_delay, consecutive_failures, local_frame,
                   clientVars, stop_pc, now, opens, decoded, written>>
    /\ UNCHANGED notReaderVars

\* `except Exception as e:` (lines 171-180)
ReadLoop_Except ==
    /\ read_pc = "except"
    /\ _last_error' = "exception"
    /\ _connected' = FALSE
    /\ isOpened' = release(isOpened, _cap)
    /\ _cap' = None
    /\ read_pc' = "sleep"
    /\ UNCHANGED <<mode, freshVars, openHist, _lock, slotVars, _stopped, retry_delay,
                   consecutive_failures, local_frame, clientVars, stop_pc,
                   now, opens, decoded, written>>
    /\ UNCHANGED notReaderVars

ReadLoop ==
    \/ ReadLoop_Head \/ ReadLoop_Open \/ ReadLoop_CheckOpened
    \/ ReadLoop_SleepElapse \/ ReadLoop_Sleep \/ ReadLoop_InnerHead \/ ReadLoop_Grab
    \/ ReadLoop_Retrieve \/ ReadLoop_Acquire \/ ReadLoop_CountDropped
    \/ ReadLoop_WriteFrame \/ ReadLoop_WriteTimestamp
    \/ ReadLoop_WriteNumber \/ ReadLoop_Release
    \/ ReadLoop_CleanupCheck \/ ReadLoop_CleanupRelease
    \/ ReadLoop_CleanupDisconnect \/ ReadLoop_Except

(***************************************************************************)
(* RTSPStreamReader.get_latest_frame, called by a client thread.           *)
(***************************************************************************)

\* a mode check that lets every call through
mode_allows_any(m, required) == TRUE

\* `if self.mode != '...': raise RuntimeError(...)` (lines 193-194 and
\* 259-260): the call goes on when the reader has the mode of the method
mode_allows(m, required) == m = required

\* lines 259-260: the call and its mode check
GetLatestFrame_Call ==
    /\ client_pc = "idle"
    /\ mode_allows(mode, "continuous")
    /\ Len(returned) < MaxReads
    /\ client_pc' = "waiting"
    /\ UNCHANGED <<mode, freshVars, openHist, _lock, slotVars, _stopped, _connected,
                   _cap, _last_error, threadVars, client_frame, result,
                   returned, stop_pc, isOpened, now, opens, decoded,
                   written>>
    /\ UNCHANGED notReaderVars

\* line 262: `with self._lock:` entered
GetLatestFrame_Acquire ==
    /\ client_pc = "waiting"
    /\ LockFree
    /\ _lock' = "client"
    /\ client_pc' = "locked"
    /\ UNCHANGED <<mode, freshVars, openHist, slotVars, _stopped, _connected, _cap, _last_error,
                   threadVars, client_frame, result, returned, stop_pc,
                   isOpened, now, opens, decoded, written>>
    /\ UNCHANGED notReaderVars

\* lines 263-266: `if self._frame is None: return None`, else
\* `success, frame = self._frame`
GetLatestFrame_ReadSlot ==
    /\ client_pc = "locked"
    /\ IF _frame = <<>>
       THEN /\ result' = <<>>
            /\ _lock' = "free"
            /\ client_pc' = "idle"
            /\ UNCHANGED client_frame
       ELSE /\ client_frame' = _frame[Len(_frame)]
            /\ client_pc' = "have_frame"
            /\ UNCHANGED <<result, _lock>>
    /\ UNCHANGED <<mode, freshVars, openHist, slotVars, _stopped, _connected, _cap, _last_error,
                   threadVars, returned, stop_pc, isOpened, now, opens,
                   decoded, written>>
    /\ UNCHANGED notReaderVars

\* line 269: `return (True, frame.copy(), self._frame_timestamp,
\* self._frame_number)`; the slot itself is left as it is
GetLatestFrame_Return ==
    /\ client_pc = "have_frame"
    /\ result' = <<client_frame, _frame_timestamp, _frame_number>>
    /\ returned' = Append(returned, _frame_number)
    /\ _lock' = "free"
    /\ client_pc' = "idle"
    /\ UNCHANGED <<mode, freshVars, openHist, slotVars, _stopped, _connected, _cap, _last_error,
                   threadVars, client_frame, stop_pc, isOpened, now, opens,
                   decoded, written>>
    /\ UNCHANGED notReaderVars

GetLatestFrame ==
    GetLatestFrame_Call \/ GetLatestFrame_Acquire \/ GetLatestFrame_ReadSlot \/ GetLatestFrame_Return

(***************************************************************************)
(* RTSPStreamReader.stop, called once by another thread.                   *)
(***************************************************************************)

\* `self._stopped = True` (line 326)
Stop_SetFlag ==
    /\ stop_pc = "idle"
    /\ _stopped' = TRUE
    /\ stop_pc' = "join"
    /\ UNCHANGED <<mode, freshVars, openHist, _lock, slotVars, _connected, _cap, _last_error,
                   threadVars, clientVars, isOpened, now, opens, decoded,
                   written>>
    /\ UNCHANGED notReaderVars

\* `self._thread.join(timeout=5.0)` (lines 327-328): returns when the thread
\* has ended or when the timeout expires, whichever comes first
Stop_Join ==
    /\ stop_pc = "join"
    /\ stop_pc' = "release"
    /\ UNCHANGED <<mode, freshVars, openHist, _lock, slotVars, _stopped, _connected, _cap,
                   _last_error, threadVars, clientVars, isOpened, now,
                   opens, decoded, written>>
    /\ UNCHANGED notReaderVars

\* `if self._cap:` (line 329)
Stop_CheckCap ==
    /\ stop_pc = "release"
    /\ stop_pc' = IF _cap = None THEN "stopped" ELSE "release_call"
    /\ UNCHANGED <<mode, freshVars, openHist, _lock, slotVars, _stopped, _connected, _cap,
                   _last_error, threadVars, clientVars, isOpened, now,
                   opens, decoded, written>>
    /\ UNCHANGED notReaderVars

\* `try: self._cap.release() except Exception: pass` (lines 330-333);
\* self._cap is read again and may have become None
Stop_Release ==
    /\ stop_pc = "release_call"
    /\ isOpened' = IF _cap = None THEN isOpened ELSE release(isOpened, _cap)
    /\ stop_pc' = "set_none"
    /\ UNCHANGED <<mode, freshVars, openHist, _lock, slotVars, _stopped, _connected, _cap,
                   _last_error, threadVars, clientVars, now, opens, decoded,
                   written>>
    /\ UNCHANGED notReaderVars

\* `self._cap = None` (line 334); the object self._cap held loses its
\* reference
Stop_SetNone ==
    /\ stop_pc = "set_none"
    /\ isOpened' = release(isOpened, _cap)
    /\ _cap' = None
    /\ stop_pc' = "stopped"
    /\ UNCHANGED <<mode, freshVars, openHist, _lock, slotVars, _stopped, _connected,
                   _last_error, threadVars, clientVars, now, opens, decoded,
                   written>>
    /\ UNCHANGED notReaderVars

Stop == Stop_SetFlag \/ Stop_Join \/ Stop_CheckCap \/ Stop_Release
        \/ Stop_SetNone

\* the passing of time as seen by time.time(); the clock is read at line
\* 152 only, so it is enough to let time pass right before that read
Tick ==
    /\ read_pc = "w_timestamp"
    /\ now < MaxClock
    /\ now' = now + 1
    /\ UNCHANGED <<mode, freshVars, openHist, _lock, slotVars, _stopped, _connected, _cap,
                   _last_error, threadVars, clientVars, stop_pc, isOpened,
                   opens, decoded, written>>
    /\ UNCHANGED notReaderVars

(***************************************************************************)
(* RTSPStreamReader.get_fresh_frame, called in reconnect_per_frame mode.   *)
(* The local `cap` holds the only reference to its VideoCapture, so the    *)
(* object is destroyed, and its handle closed, when the call returns.      *)
(***************************************************************************)
freshRest == <<mode, _lock, _frame, _frame_timestamp, _frames_dropped,
               _stopped, _connected, _cap, retry_delay,
               consecutive_failures, local_frame, read_pc, clientVars,
               stop_pc, now, decoded, written, openHist>>

\* lines 193-212: the mode check and `cap = cv2.VideoCapture(...)`, which
\* returns an object that is open or not, or raises
GetFreshFrame_Open ==
    /\ fresh_pc = "idle"
    /\ mode_allows(mode, "reconnect_per_frame")
    /\ opens < MaxFreshCalls
    /\ \E outcome \in {"opened", "closed", "raise"} :
         IF outcome = "raise"
         THEN /\ fresh_pc' = "except"
              /\ UNCHANGED <<fresh_cap, isOpened, opens>>
         ELSE /\ opens' = opens + 1
              /\ fresh_cap' = opens + 1
              /\ isOpened' = IF outcome = "opened"
                             THEN isOpened \cup {opens + 1} ELSE isOpened
              /\ fresh_pc' = "check_opened"
    /\ UNCHANGED <<freshRest, fresh_ret, fresh_result, _last_error,
                   _frames_read, _frame_number>>
    /\ UNCHANGED notReaderVars

\* lines 214-216: `if not cap.isOpened(): ... return None`
GetFreshFrame_CheckOpened ==
    /\ fresh_pc = "check_opened"
    /\ IF fresh_cap \in isOpened
       THEN /\ fresh_pc' = "read"
            /\ UNCHANGED <<_last_error, fresh_result, fresh_cap, isOpened>>
       ELSE /\ _last_error' = "Failed to open RTSP stream for fresh frame"
            /\ fresh_result' = <<>>
            /\ isOpened' = release(isOpened, fresh_cap)
            /\ fresh_cap' = None
            /\ fresh_pc' = "idle"
    /\ UNCHANGED <<freshRest, fresh_ret, opens, _frames_read,
                   _frame_number>>
    /\ UNCHANGED notReaderVars

\* line 219: `ret, frame = cap.read()`, which may raise
GetFreshFrame_Read ==
    /\ fresh_pc = "read"
    /\ \E outcome \in {"ok", "fail", "raise"} :
         IF outcome = "raise"
         THEN fresh_pc' = "except" /\ UNCHANGED fresh_ret
         ELSE fresh_pc' = "release" /\ fresh_ret' = (outcome = "ok")
    /\ UNCHANGED <<freshRest, fresh_cap, fresh_result, isOpened, opens,
                   _last_error, _frames_read, _frame_number>>
    /\ UNCHANGED notReaderVars

\* line 222: `cap.release()`
GetFreshFrame_Release ==
    /\ fresh_pc = "release"
    /\ isOpened' = release(isOpened, fresh_cap)
    /\ fresh_pc' = "return"
    /\ UNCHANGED <<freshRest, fresh_cap, fresh_ret, fresh_result, opens,
                   _last_error, _frames_read, _frame_number>>
    /\ UNCHANGED notReaderVars

\* lines 224-242: the counters and the return value
GetFreshFrame_Return ==
    /\ fresh_pc = "return"
    /\ IF fresh_ret
       THEN /\ _frames_read' = _frames_read + 1
            /\ _frame_number' = _frame_number + 1
            /\ fresh_result' = <<_frame_number + 1>>
            /\ UNCHANGED _last_error
       ELSE /\ _last_error' = "Failed to read frame after reconnection"
            /\ fresh_result' = <<>>
            /\ UNCHANGED <<_frames_read, _frame_number>>
    /\ isOpened' = release(isOpened, fresh_cap)
    /\ fresh_cap' = None
    /\ fresh_pc' = "idle"
    /\ UNCHANGED <<freshRest, fresh_ret, opens>>
    /\ UNCHANGED notReaderVars

\* lines 244-247: `except Exception as e: ... return None`
GetFreshFrame_Except ==
    /\ fresh_pc = "except"
    /\ _last_error' = "exception"
    /\ fresh_result' = <<>>
    /\ isOpened' = release(isOpened, fresh_cap)
    /\ fresh_cap' = None
    /\ fresh_pc' = "idle"
    /\ UNCHANGED <<freshRest, fresh_ret, opens, _frames_read,
                   _frame_number>>
    /\ UNCHANGED notReaderVars

GetFreshFrame ==
    \/ GetFreshFrame_Open \/ GetFreshFrame_CheckOpened
    \/ GetFreshFrame_Read \/ GetFreshFrame_Release
    \/ GetFreshFrame_Return \/ GetFreshFrame_Except

NextReader == ReadLoop \/ GetLatestFrame \/ GetFreshFrame \/ Stop \/ Tick

(***************************************************************************)
(* C1: every result of get_latest_frame() is None or a (frame, *)
(* frame_number) triple stored together by one slot write, and the slot    *)
(* never holds more than one frame.                                        *)
(***************************************************************************)
C1_NoTornRead ==
    /\ Len(_frame) <= 1
    /\ result = <<>> \/ result \in written

\* a read that interleaved with the acquisition thread returned a triple
\* although a newer frame had already been decoded and was being stored
C1_Witness ==
    /\ result # <<>>
    /\ result \in written
    /\ Len(returned) >= 2
    /\ read_pc \in {"lock", "w_read"}

(***************************************************************************)
(* C2: the frame numbers of successive non-None results of                 *)
(* get_latest_frame() are strictly increasing.                             *)
(***************************************************************************)
C2_StrictlyIncreasing ==
    \A i \in 1..Len(returned) : \A j \in 1..Len(returned) :
        i < j => returned[i] < returned[j]

(***************************************************************************)
(* ObjectDetector.is_in_ignore_zone (object_detector.py).                  *)
(* A percentage value is the exact fraction <<numerator, denominator>>;    *)
(* a pixel box is <<x1, y1, x2, y2>>, a frame shape is <<height, width>>,  *)
(* and an ignore zone is <<>> (None) or four numerators over ZoneDen.      *)
(***************************************************************************)
ZoneDen == GridMax
FrameH  == GridMax          \* frame.shape[0] of the modelled frames
FrameW  == 2 * GridMax      \* frame.shape[1] of the modelled frames
frame_shape == <<FrameH, FrameW>>

\* a < b on fractions with positive denominators
FracLess(a, b) == a[1] * b[2] < b[1] * a[2]
\* a <= b on fractions, used by the exclusive variant below
FracLessEq(a, b) == a[1] * b[2] <= b[1] * a[2]

\* lines 89-96
_get_box_percentage_coords(x1, y1, x2, y2, frame_w, frame_h) ==
    [xmin |-> <<x1, frame_w>>, ymin |-> <<y1, frame_h>>,
     xmax |-> <<x2, frame_w>>, ymax |-> <<y2, frame_h>>]

\* an overlap test that does not count touching rectangles
_check_box_overlap_exclusive(box_coords, iz) ==
    ~ (\/ FracLessEq(box_coords.xmax, iz[1])
       \/ FracLessEq(iz[3], box_coords.xmin)
       \/ FracLessEq(box_coords.ymax, iz[2])
       \/ FracLessEq(iz[4], box_coords.ymin))

\* lines 98-102; iz is (iz_xmin, iz_ymin, iz_xmax, iz_ymax) as fractions
_check_box_overlap(box_coords, iz) ==
    ~ (\/ FracLess(box_coords.xmax, iz[1])
       \/ FracLess(iz[3], box_coords.xmin)
       \/ FracLess(box_coords.ymax, iz[2])
       \/ FracLess(iz[4], box_coords.ymin))

\* the configured zone as fractions
ZoneFractions(zone) == [i \in 1..4 |-> <<zone[i], ZoneDen>>]

\* a test that treats every detection as outside the ignore zone
is_in_ignore_zone_never(bbox, shape, zone) == FALSE

\* lines 71-87
is_in_ignore_zone(bbox, shape, zone) ==
    IF zone = <<>>
    THEN FALSE
    ELSE LET frame_h == shape[1]
             frame_w == shape[2]
             box_coords == _get_box_percentage_coords(
                               bbox[1], bbox[2], bbox[3], bbox[4],
                               frame_w, frame_h)
         IN  _check_box_overlap(box_coords, ZoneFractions(zone))

\* well-formed rectangles with corners on a grid
Rects(maxX, maxY) ==
    {r \in (0..maxX) \X (0..maxY) \X (0..maxX) \X (0..maxY) :
        r[1] <= r[3] /\ r[2] <= r[4]}

IdleOv ==
    /\ ov_bbox = <<0, 0, 0, 0>>
    /\ ov_zone = <<>>
    /\ ov_pc = "idle"
    /\ ov_result = FALSE
    /\ ov_swapped = FALSE

\* the arguments of one call: a detection box in pixels of the frame and
\* the configured zone (or None)
InitOv ==
    /\ ov_bbox \in Rects(FrameW, FrameH)
    /\ ov_zone \in {<<>>} \cup Rects(GridMax, GridMax)
    /\ ov_pc = "call"
    /\ ov_result = FALSE
    /\ ov_swapped = FALSE

\* the zone as a box_coords mapping and the box as a zone tuple, for the
\* call of _check_box_overlap with its two rectangles exchanged
AsBoxCoords(iz) == [xmin |-> iz[1], ymin |-> iz[2], xmax |-> iz[3],
                    ymax |-> iz[4]]
AsZone(box_coords) == <<box_coords.xmin, box_coords.ymin, box_coords.xmax,
                        box_coords.ymax>>

\* one call of is_in_ignore_zone and, for a configured zone, one call of
\* _check_box_overlap with the rectangles exchanged
CallIsInIgnoreZone ==
    /\ ov_pc = "call"
    /\ ov_result' = is_in_ignore_zone(ov_bbox, frame_shape, ov_zone)
    /\ ov_swapped' =
         IF ov_zone = <<>> THEN FALSE
         ELSE _check_box_overlap(
                  AsBoxCoords(ZoneFractions(ov_zone)),
                  AsZone(_get_box_percentage_coords(
                             ov_bbox[1], ov_bbox[2], ov_bbox[3], ov_bbox[4],
                             FrameW, FrameH)))
    /\ ov_pc' = "done"
    /\ UNCHANGED <<ov_bbox, ov_zone>>
    /\ UNCHANGED notOvVars

NextOverlap == CallIsInIgnoreZone

(***************************************************************************)
(* StreamProcessor (stream_processor.py).                                  *)
(* Confidences are percentages.  Time is in seconds; run_retry_delay is in *)
(* units of 1/64 s.  Of a queued task only what tells tasks apart is kept: *)
(* a FileWrite is [kind], a DatabaseWrite is [kind, confidence], and the   *)
(* periodic snapshot carries confidence 0.  copy.deepcopy is taken to      *)
(* succeed.                                                                *)
(***************************************************************************)
queue_maxsize        == 10
frame_save_interval  == 3600
max_frame_failures   == 10
run_initial_retry_delay == 5 * DelayUnit
run_max_retry_delay  == 60 * DelayUnit
max_history          == 100
DefaultThreshold     == 50
CatClassId           == 15

\* time.time() at start-up is at least one interval after the epoch; this
\* specification covers the first interval after start-up, in which the
\* periodic snapshot is due in the first iteration only
StartTime == frame_save_interval

\* detections the detector may return
Confidences == {DefaultThreshold - 10, DefaultThreshold, DefaultThreshold + 41}
ProcZone    == <<GridMax - 1, GridMax - 1, GridMax, GridMax>>
BoxOutside  == <<0, 0, 1, 1>>
BoxInside   == <<FrameW - 1, FrameH - 1, FrameW, FrameH>>
Detection   ==
    [class_id : {CatClassId}, confidence : Confidences, bbox : {BoxOutside}]
    \cup {[class_id |-> CatClassId, confidence |-> DefaultThreshold + 41,
           bbox |-> BoxInside]}
Batches     == UNION {[1..n -> Detection] : n \in 0..MaxDetections}

\* StreamProcessor.__init__ with the configuration loaded by Config;
\* MONITORING_ENABLED is 'true' or 'false'
InitProc ==
    /\ confidence_threshold = DefaultThreshold
    /\ ignore_zone = ProcZone
    /\ monitoring_enabled \in BOOLEAN
    /\ last_frame_save_time = 0
    /\ db_queue = <<>>
    /\ file_queue = <<>>
    /\ _total_frames_processed = 0
    /\ run_pc = "connect"
    /\ cap_isOpened = FALSE
    /\ run_retry_delay = run_initial_retry_delay
    /\ run_consecutive_failures = 0
    /\ frame_read_failures = 0
    /\ detections = <<>>
    /\ det_idx = 0
    /\ current_time = StartTime
    /\ _detections_history = <<>>
    /\ batch_size = 0
    /\ surviving = {}
    /\ events = <<>>
    /\ found_full = FALSE
    /\ skipped_equal = FALSE
    /\ cap_opens = 0

\* a queue.put that appends without looking at maxsize
put_nowait_unbounded(q, item) == Append(q, item)

\* queue.Queue.put_nowait inside `try: ... except queue.Full:`: the item is
\* appended when there is room and dropped otherwise
put_nowait(q, item) ==
    IF Len(q) < queue_maxsize THEN Append(q, item) ELSE q

\* an append that drops the new entry when the deque is full
deque_append_keep_oldest(d, x, maxlen) ==
    IF Len(d) < maxlen THEN Append(d, x) ELSE d

\* collections.deque(maxlen=...).append
deque_append(d, x, maxlen) ==
    IF Len(d) < maxlen THEN Append(d, x) ELSE Append(Tail(d), x)

\* the test of line 230 with >= in place of >
confidence_passes_inclusive(confidence, threshold) == confidence >= threshold

\* `if confidence > self.config.confidence_threshold` (line 230)
confidence_passes(confidence, threshold) == confidence > threshold

\* the steps of one surviving detection with the file save moved first
StepAfter_FileFirst(step) ==
    CASE step = "filter"    -> "save_file"
      [] step = "save_file" -> "publish"
      [] step = "publish"   -> "save_db"
      [] step = "save_db"   -> "next"

\* the steps of one surviving detection with the two saves exchanged
StepAfter_DbFirst(step) ==
    CASE step = "filter"    -> "publish"
      [] step = "publish"   -> "save_db"
      [] step = "save_db"   -> "save_file"
      [] step = "save_file" -> "next"

\* statement order of lines 251-278 for one surviving detection
StepAfter(step) ==
    CASE step = "filter"    -> "publish"
      [] step = "publish"   -> "save_file"
      [] step = "save_file" -> "save_db"
      [] step = "save_db"   -> "next"

runLocals == <<run_retry_delay, run_consecutive_failures,
               frame_read_failures>>
configVars == <<confidence_threshold, ignore_zone, monitoring_enabled>>
batchVars  == <<batch_size, surviving, skipped_equal>>

Max(a, b) == IF a > b THEN a ELSE b

\* the closed rectangles of a pixel box and of the configured zone have a
\* point in common (both brought to units of 1 / (ZoneDen * frame size))
BoxMeetsZone(bbox, zone) ==
    /\ zone # <<>>
    /\ Max(bbox[1] * ZoneDen, zone[1] * FrameW)
         <= Min(bbox[3] * ZoneDen, zone[3] * FrameW)
    /\ Max(bbox[2] * ZoneDen, zone[2] * FrameH)
         <= Min(bbox[4] * ZoneDen, zone[4] * FrameH)

\* a detection that the filter of _process_detections is meant to let pass
Survives(d) ==
    /\ d.confidence > confidence_threshold
    /\ ~ BoxMeetsZone(d.bbox, ignore_zone)

\* lines 287-321: one connection attempt of run()
Run_Connect ==
    /\ run_pc = "connect"
    /\ cap_opens < MaxCapOpens
    /\ cap_opens' = cap_opens + 1
    /\ \E opened \in BOOLEAN :
         IF opened
         THEN /\ cap_isOpened' = TRUE
              /\ run_consecutive_failures' = 0
              /\ run_retry_delay' = run_initial_retry_delay
              /\ frame_read_failures' = 0
              /\ run_pc' = "read"
         ELSE /\ cap_isOpened' = FALSE
              /\ run_consecutive_failures' = run_consecutive_failures + 1
              /\ run_retry_delay' =
                   Min((run_retry_delay * 3) \div 2, run_max_retry_delay)
              /\ run_pc' = "connect"
              /\ UNCHANGED frame_read_failures
    /\ UNCHANGED <<configVars, last_frame_save_time, db_queue, file_queue,
                   _total_frames_processed, detections, det_idx,
                   current_time, _detections_history, batchVars, events,
                   found_full>>
    /\ UNCHANGED notProcVars

\* the number of frames after which the model stops reading
IterationBound ==
    IF monitoring_enabled THEN MaxMonitoredIterations ELSE MaxIterations

\* lines 324-388: the frame read of one iteration
Run_Read ==
    /\ run_pc = "read"
    /\ cap_isOpened
    /\ \E ret \in BOOLEAN :
         IF ret
         THEN /\ _total_frames_processed < IterationBound
              /\ frame_read_failures' = 0
              /\ events' = <<>>
              /\ found_full' = FALSE
              /\ run_pc' = "snapshot"
              /\ UNCHANGED cap_isOpened
         ELSE /\ frame_read_failures' = frame_read_failures + 1
              /\ IF frame_read_failures + 1 >= max_frame_failures
                 THEN cap_isOpened' = FALSE /\ run_pc' = "connect"
                 ELSE UNCHANGED <<cap_isOpened, run_pc>>
              /\ UNCHANGED <<events, found_full>>
    /\ UNCHANGED <<configVars, last_frame_save_time, db_queue, file_queue,
                   _total_frames_processed, run_retry_delay,
                   run_consecutive_failures, detections, det_idx,
                   current_time, _detections_history, batchVars, cap_opens>>
    /\ UNCHANGED notProcVars

\* _save_frame_to_database_if_needed (lines 195-215), called at line 398
Run_SaveFrameIfNeeded ==
    /\ run_pc = "snapshot"
    /\ IF current_time - last_frame_save_time >= frame_save_interval
       THEN /\ last_frame_save_time' = current_time
            /\ db_queue' = put_nowait(db_queue, [kind |-> "DatabaseWrite",
                                                 confidence |-> 0])
            /\ events' = IF Len(db_queue') > Len(db_queue)
                         THEN Append(events, [kind |-> "snapshot", det |-> 0])
                         ELSE events
            /\ found_full' = (found_full \/ Len(db_queue) >= queue_maxsize)
       ELSE UNCHANGED <<last_frame_save_time, db_queue, events, found_full>>
    /\ run_pc' = "detect"
    /\ UNCHANGED <<configVars, file_queue, _total_frames_processed,
                   cap_isOpened, runLocals, detections, det_idx,
                   current_time, _detections_history, batchVars,
                   cap_opens>>
    /\ UNCHANGED notProcVars

\* `detections, results = self.detector.detect_objects(frame)` (line 402)
\* and `if detections:` (line 415); an exception of the detector is not
\* handled anywhere in run() and ends it
Run_Detect ==
    /\ run_pc = "detect"
    /\ \/ /\ run_pc' = "crashed"
          /\ UNCHANGED <<detections, det_idx, batchVars>>
       \/ \E batch \in Batches :
            /\ detections' = batch
            /\ skipped_equal' = FALSE
            /\ batch_size' = Len(batch)
            /\ surviving' = {i \in 1..Len(batch) : Survives(batch[i])}
            /\ IF batch = <<>>
               THEN run_pc' = "finish" /\ UNCHANGED det_idx
               ELSE run_pc' = "filter" /\ det_idx' = 1
    /\ UNCHANGED <<configVars, last_frame_save_time, db_queue, file_queue,
                   _total_frames_processed, cap_isOpened, runLocals,
                   current_time, _detections_history, events, found_full,
                   cap_opens>>
    /\ UNCHANGED notProcVars

\* `continue` or the end of the body of the for loop of
\* _process_detections: the loop moves to the next detection or ends
NextDetection ==
    /\ detections' = Tail(detections)
    /\ IF Len(detections) > 1
       THEN det_idx' = det_idx + 1 /\ run_pc' = "filter"
       ELSE det_idx' = 0 /\ run_pc' = "finish"

\* the statement that follows `step` for the current detection
GoAfter(step) ==
    IF StepAfter(step) = "next"
    THEN NextDetection
    ELSE run_pc' = StepAfter(step) /\ UNCHANGED <<detections, det_idx>>

\* lines 228-249: the confidence test, the ignore-zone test and the
\* annotation of one detection
ProcessDetections_Filter ==
    /\ run_pc = "filter"
    /\ LET d == Head(detections)
       IN  IF /\ confidence_passes(d.confidence, confidence_threshold)
              /\ ~ is_in_ignore_zone(d.bbox, frame_shape, ignore_zone)
           THEN GoAfter("filter") /\ UNCHANGED skipped_equal
           ELSE /\ NextDetection
                /\ skipped_equal' =
                     (skipped_equal \/ d.confidence = confidence_threshold)
    /\ UNCHANGED <<configVars, last_frame_save_time, db_queue, file_queue,
                   _total_frames_processed, cap_isOpened, runLocals,
                   current_time, _detections_history, batch_size, surviving,
                   events, found_full, cap_opens>>
    /\ UNCHANGED notProcVars

\* publish_detection with the alert left out while the file queue is full
ProcessDetections_Publish_IfRoom ==
    /\ run_pc = "publish"
    /\ events' = IF Len(file_queue) < queue_maxsize
                 THEN Append(events, [kind |-> "alert", det |-> det_idx])
                 ELSE events
    /\ _detections_history' =
         IF monitoring_enabled
         THEN deque_append(_detections_history,
                           Head(detections).confidence, max_history)
         ELSE _detections_history
    /\ GoAfter("publish")
    /\ UNCHANGED <<configVars, last_frame_save_time, db_queue, file_queue,
                   _total_frames_processed, cap_isOpened, runLocals,
                   current_time, batchVars, found_full, cap_opens>>
    /\ UNCHANGED notProcVars

\* lines 251-265: publish_detection, which returns normally whatever the
\* broker does, then add_detection when monitoring is enabled
ProcessDetections_Publish ==
    /\ run_pc = "publish"
    /\ events' = Append(events, [kind |-> "alert", det |-> det_idx])
    /\ _detections_history' =
         IF monitoring_enabled
         THEN deque_append(_detections_history,
                           Head(detections).confidence, max_history)
         ELSE _detections_history
    /\ GoAfter("publish")
    /\ UNCHANGED <<configVars, last_frame_save_time, db_queue, file_queue,
                   _total_frames_processed, cap_isOpened, runLocals,
                   current_time, batchVars, found_full, cap_opens>>
    /\ UNCHANGED notProcVars

\* line 268 with _save_detection (lines 154-163)
ProcessDetections_SaveFile ==
    /\ run_pc = "save_file"
    /\ file_queue' = put_nowait(file_queue, [kind |-> "FileWrite"])
    /\ events' = IF Len(file_queue') > Len(file_queue)
                 THEN Append(events, [kind |-> "file", det |-> det_idx])
                 ELSE events
    /\ found_full' = (found_full \/ Len(file_queue) >= queue_maxsize)
    /\ GoAfter("save_file")
    /\ UNCHANGED <<configVars, last_frame_save_time, db_queue,
                   _total_frames_processed, cap_isOpened, runLocals,
                   current_time, _detections_history, batchVars,
                   cap_opens>>
    /\ UNCHANGED notProcVars

\* lines 270-278
ProcessDetections_SaveDb ==
    /\ run_pc = "save_db"
    /\ db_queue' = put_nowait(db_queue,
                              [kind |-> "DatabaseWrite",
                               confidence |-> Head(detections).confidence])
    /\ events' = IF Len(db_queue') > Len(db_queue)
                 THEN Append(events, [kind |-> "db", det |-> det_idx])
                 ELSE events
    /\ found_full' = (found_full \/ Len(db_queue) >= queue_maxsize)
    /\ GoAfter("save_db")
    /\ UNCHANGED <<configVars, last_frame_save_time, file_queue,
                   _total_frames_processed, cap_isOpened, runLocals,
                   current_time, _detections_history, batchVars,
                   cap_opens>>
    /\ UNCHANGED notProcVars

\* lines 418-447: the end of one iteration
Run_Finish ==
    /\ run_pc = "finish"
    /\ _total_frames_processed' = _total_frames_processed + 1
    /\ detections' = <<>>
    /\ det_idx' = 0
    /\ batch_size' = 0
    /\ surviving' = {}
    /\ skipped_equal' = FALSE
    /\ events' = <<>>
    /\ found_full' = FALSE
    /\ run_pc' = "read"
    /\ UNCHANGED <<configVars, last_frame_save_time, db_queue, file_queue,
                   cap_isOpened, runLocals, current_time,
                   _detections_history, cap_opens>>
    /\ UNCHANGED notProcVars

\* one pass of the loop of _db_worker that gets a task (lines 82-100 and
\* 111-113): the task is taken from the queue and the database write
\* succeeds or raises; the worker goes on in both cases
DbWorker_Task ==
    /\ db_queue # <<>>
    /\ db_queue' = Tail(db_queue)
    /\ UNCHANGED <<configVars, last_frame_save_time, file_queue,
                   _total_frames_processed, run_pc, cap_isOpened, runLocals,
                   detections, det_idx, current_time, _detections_history,
                   batchVars, events, found_full, cap_opens>>
    /\ UNCHANGED notProcVars

\* one pass of the loop of _file_worker that gets a task (lines 119-139
\* and 150-152): the task is taken from the queue and the reclamation pass
\* and the file write succeed or raise; the worker goes on in both cases
FileWorker_Task ==
    /\ file_queue # <<>>
    /\ file_queue' = Tail(file_queue)
    /\ UNCHANGED <<configVars, last_frame_save_time, db_queue,
                   _total_frames_processed, run_pc, cap_isOpened, runLocals,
                   detections, det_idx, current_time, _detections_history,
                   batchVars, events, found_full, cap_opens>>
    /\ UNCHANGED notProcVars

(***************************************************************************)
(* cleanup_results_folder (results_cleanup.py) as called by                *)
(* StreamProcessor._file_worker before each cv2.imwrite.                   *)
(***************************************************************************)
DiskTotal    == 10         \* shutil.disk_usage("/").total, in disk units
ThresholdNum == 8          \* config.usage_threshold = 0.8 = 8 / 10
ThresholdDen == 10
OtherFile    == 0          \* a file of results_folder that is not a .jpg
FrameSize    == 1          \* disk units taken by a frame that imwrite stores

\* `usage = used / total; if usage < usage_threshold` (lines 14-15, 41-42)
usage_below(u) == u * ThresholdDen < ThresholdNum * DiskTotal

\* creation time and size of a file; the frames written by the worker are
\* newer than every file that was there before
Ctime(f) == IF f \in DOMAIN ctime THEN ctime[f] ELSE f
Size(f)  == IF f \in DOMAIN fsize THEN fsize[f] ELSE FrameSize

\* os.listdir(results_folder): the names in an order that has nothing to do
\* with the creation times
listdir(files) ==
    LET all == files \cup {OtherFile}
    IN  [i \in 1..Cardinality(all) |->
            CHOOSE x \in all : Cardinality({y \in all : y < x}) = i - 1]

\* `if f.lower().endswith('.jpg')` (line 26)
is_jpg(f) == f # OtherFile

\* a sort that leaves the list as os.listdir returned it
sort_by_ctime_unsorted(seq) == seq

\* `images.sort(key=os.path.getctime)` (line 34): ascending and stable
RECURSIVE sort_by_ctime(_)
sort_by_ctime(seq) ==
    IF seq = <<>> THEN <<>>
    ELSE LET rest == sort_by_ctime(SubSeq(seq, 1, Len(seq) - 1))
             f    == seq[Len(seq)]
             k    == Cardinality({i \in 1..Len(rest) :
                                    Ctime(rest[i]) <= Ctime(f)})
         IN  SubSeq(rest, 1, k) \o <<f>> \o SubSeq(rest, k + 1, Len(rest))

UsedAtStart == {u \in 0..DiskTotal :
                   /\ u >= 2 * MaxFiles
                   /\ u * ThresholdDen >= (ThresholdNum - 1) * DiskTotal}

InitCleanup ==
    /\ ctime \in Permutations(1..MaxFiles)
    /\ fsize \in [1..MaxFiles -> 1..2]
    /\ folder \in {{}, 1..MaxFiles}
    /\ used \in UsedAtStart
    /\ fw_pc = "get"
    /\ fw_tasks = 0
    /\ cl_images = <<>>
    /\ cl_idx = 0
    /\ cl_checked = FALSE
    /\ cl_start = 0
    /\ cl_deleted = <<>>
    /\ cl_failed = {}

\* the file worker before its first task, with an empty results folder
IdleCleanup ==
    /\ ctime = [i \in 1..MaxFiles |-> i]
    /\ fsize = [i \in 1..MaxFiles |-> 1]
    /\ folder = {}
    /\ used = 0
    /\ fw_pc = "get"
    /\ fw_tasks = 0
    /\ cl_images = <<>>
    /\ cl_idx = 0
    /\ cl_checked = FALSE
    /\ cl_start = 0
    /\ cl_deleted = <<>>
    /\ cl_failed = {}

fsVars   == <<ctime, fsize>>
passHist == <<cl_checked, cl_start, cl_deleted, cl_failed>>

\* `task = self.file_queue.get(timeout=1)` returns a task (lines 119-124)
FileWorker_Get ==
    /\ fw_pc = "get"
    /\ fw_tasks < MaxTasks
    /\ fw_tasks' = fw_tasks + 1
    /\ fw_pc' = "check"
    /\ cl_images' = <<>>
    /\ cl_idx' = 0
    /\ cl_checked' = FALSE
    /\ cl_start' = 0
    /\ cl_deleted' = <<>>
    /\ cl_failed' = {}
    /\ UNCHANGED <<fsVars, folder, used>>
    /\ UNCHANGED notCleanVars

\* lines 13-16: `if usage < usage_threshold: return`
Cleanup_Check ==
    /\ fw_pc = "check"
    /\ cl_checked' = TRUE
    /\ cl_start' = used
    /\ fw_pc' = IF usage_below(used) THEN "write" ELSE "list"
    /\ UNCHANGED <<fsVars, folder, used, fw_tasks, cl_images, cl_idx,
                   cl_deleted, cl_failed>>
    /\ UNCHANGED notCleanVars

\* lines 19-34: the folder is missing or cannot be read (return), or its
\* .jpg files are listed and sorted; an empty list returns
Cleanup_List ==
    /\ fw_pc = "list"
    /\ \E outcome \in {"listed", "unreadable"} :
         LET images == sort_by_ctime(SelectSeq(listdir(folder), is_jpg))
         IN  IF outcome = "unreadable" \/ images = <<>>
             THEN /\ fw_pc' = "write"
                  /\ UNCHANGED <<cl_images, cl_idx>>
             ELSE /\ cl_images' = images
                  /\ cl_idx' = 1
                  /\ fw_pc' = "remove"
    /\ UNCHANGED <<fsVars, folder, used, fw_tasks, passHist>>
    /\ UNCHANGED notCleanVars

\* the for loop goes to the next image, or ends (line 37)
NextImage ==
    IF cl_idx < Len(cl_images)
    THEN cl_idx' = cl_idx + 1 /\ fw_pc' = "remove"
    ELSE cl_idx' = cl_idx /\ fw_pc' = "write"

\* `os.remove(img)` (line 39), which may raise OSError (lines 44-45)
Cleanup_Remove ==
    /\ fw_pc = "remove"
    /\ LET img == cl_images[cl_idx]
       IN  \E outcome \in {"removed", "OSError"} :
             IF outcome = "removed" /\ img \in folder
             THEN /\ folder' = folder \ {img}
                  /\ used' = used - Size(img)
                  /\ cl_deleted' = Append(cl_deleted, img)
                  /\ fw_pc' = "recheck"
                  /\ UNCHANGED <<cl_idx, cl_failed>>
             ELSE /\ cl_failed' = cl_failed \cup {img}
                  /\ NextImage
                  /\ UNCHANGED <<folder, used, cl_deleted>>
    /\ UNCHANGED <<fsVars, fw_tasks, cl_images, cl_checked, cl_start>>
    /\ UNCHANGED notCleanVars

\* lines 40-43: the usage is read again; `break` when it is below the
\* threshold
Cleanup_Recheck ==
    /\ fw_pc = "recheck"
    /\ IF usage_below(used)
       THEN fw_pc' = "write" /\ UNCHANGED cl_idx
       ELSE NextImage
    /\ UNCHANGED <<fsVars, folder, used, fw_tasks, cl_images, passHist>>
    /\ UNCHANGED notCleanVars

\* `cv2.imwrite(output_file, annotated_frame)` and task_done (lines
\* 126-139); imwrite stores the frame or fails without raising
FileWorker_Write ==
    /\ fw_pc = "write"
    /\ \E outcome \in {"stored", "failed"} :
         IF outcome = "stored" /\ used + FrameSize <= DiskTotal
         THEN /\ folder' = folder \cup {MaxFiles + fw_tasks}
              /\ used' = used + FrameSize
         ELSE UNCHANGED <<folder, used>>
    /\ fw_pc' = "get"
    /\ UNCHANGED <<fsVars, fw_tasks, cl_images, cl_idx, passHist>>
    /\ UNCHANGED notCleanVars

NextCleanup ==
    \/ FileWorker_Get \/ Cleanup_Check \/ Cleanup_List \/ Cleanup_Remove
    \/ Cleanup_Recheck \/ FileWorker_Write

(***************************************************************************)
(* MonitoringCollector (monitoring_collector.py) with writers and one      *)
(* observer.  Every method body runs under self._lock, so a method is one  *)
(* step.  Dicts and lists are objects: the model keeps them in `dicts` and *)
(* `lists` and passes references (positions) around, as Python does.       *)
(***************************************************************************)
InitialTiming == [k \in {"total", "frame_age"} |-> 0]

\* `d[field] = v` on the dict that `ref` points to
set_item(heap, ref, field, v) ==
    [heap EXCEPT ![ref] = [@ EXCEPT ![field] = v]]

\* MonitoringCollector.__init__ (lines 14-60)
InitCollector ==
    /\ self_max_history \in 1..MaxHistoryArg
    /\ _processing_times = <<>>
    /\ _fps_history = <<>>
    /\ _frame_age_history = <<>>
    /\ mc_detections_history = <<>>
    /\ _timing_breakdown = InitialTiming
    /\ _frame_age = 0
    /\ _frame_count = 0
    /\ mc_total_frames_processed = 0
    /\ dicts = <<>>
    /\ lists = <<>>
    /\ obs_detections = <<>>
    /\ obs_timing = <<>>
    /\ mc_reads = 0
    /\ mc_updates = 0
    /\ arrived = [h \in {"processing_times", "fps", "frame_age",
                         "detections"} |-> <<>>]

IdleCollector == InitCollector /\ self_max_history = 1

obsVars  == <<obs_detections, obs_timing, mc_reads>>
heapVars == <<dicts, lists>>

\* the value of this update call; no two calls pass the same value
Stamp == mc_updates + 1

\* update_processing_time (lines 84-96)
UpdateProcessingTime ==
    /\ mc_updates < MaxUpdates
    /\ \E processing_time \in {0, Stamp} :
         /\ _processing_times' =
              deque_append(_processing_times, processing_time,
                           self_max_history)
         /\ _fps_history' =
              IF processing_time > 0
              THEN deque_append(_fps_history, <<1, processing_time>>,
                                self_max_history)
              ELSE _fps_history
         /\ arrived' =
              [arrived EXCEPT
                 !["processing_times"] = Append(@, processing_time),
                 !["fps"] = IF processing_time > 0
                            THEN Append(@, <<1, processing_time>>) ELSE @]
    /\ mc_total_frames_processed' = mc_total_frames_processed + 1
    /\ _frame_count' = _frame_count + 1
    /\ mc_updates' = mc_updates + 1
    /\ UNCHANGED <<self_max_history, _frame_age_history,
                   mc_detections_history, _timing_breakdown, _frame_age,
                   heapVars, obsVars>>
    /\ UNCHANGED notMonVars

\* dict.update
dict_update(d, other) ==
    [k \in DOMAIN d \cup DOMAIN other |->
        IF k \in DOMAIN other THEN other[k] ELSE d[k]]

\* update_timing_breakdown (lines 98-117)
UpdateTimingBreakdown ==
    /\ mc_updates < MaxUpdates
    /\ \E keys \in {{"total"}, {"total", "frame_age"}} :
         LET timing == [k \in keys |-> Stamp]
         IN  /\ _timing_breakdown' = dict_update(_timing_breakdown, timing)
             /\ IF "frame_age" \in DOMAIN timing
                THEN /\ _frame_age' = timing["frame_age"]
                     /\ _frame_age_history' =
                          deque_append(_frame_age_history,
                                       timing["frame_age"], self_max_history)
                     /\ arrived' = [arrived EXCEPT !["frame_age"] =
                                      Append(@, timing["frame_age"])]
                ELSE UNCHANGED <<_frame_age, _frame_age_history, arrived>>
    /\ mc_updates' = mc_updates + 1
    /\ UNCHANGED <<self_max_history, _processing_times, _fps_history,
                   mc_detections_history, _frame_count,
                   mc_total_frames_processed, heapVars, obsVars>>
    /\ UNCHANGED notMonVars

\* update_frame_age (lines 119-129)
UpdateFrameAge ==
    /\ mc_updates < MaxUpdates
    /\ _frame_age' = Stamp
    /\ _frame_age_history' =
         deque_append(_frame_age_history, Stamp, self_max_history)
    /\ _timing_breakdown' = [_timing_breakdown EXCEPT !["frame_age"] = Stamp]
    /\ arrived' = [arrived EXCEPT !["frame_age"] = Append(@, Stamp)]
    /\ mc_updates' = mc_updates + 1
    /\ UNCHANGED <<self_max_history, _processing_times, _fps_history,
                   mc_detections_history, _frame_count,
                   mc_total_frames_processed, heapVars, obsVars>>
    /\ UNCHANGED notMonVars

\* add_detection (lines 131-151): a new dict that refers to the caller's
\* bbox list is appended to the history
AddDetection ==
    /\ mc_updates < MaxUpdates
    /\ lists' = Append(lists, <<Stamp, Stamp + 1>>)
    /\ dicts' = Append(dicts, [confidence |-> Stamp,
                               bbox |-> Len(lists) + 1])
    /\ mc_detections_history' =
         deque_append(mc_detections_history, Len(dicts) + 1,
                      self_max_history)
    /\ arrived' = [arrived EXCEPT !["detections"] =
                     Append(@, Len(dicts) + 1)]
    /\ mc_updates' = mc_updates + 1
    /\ UNCHANGED <<self_max_history, _processing_times, _fps_history,
                   _frame_age_history, _timing_breakdown, _frame_age,
                   _frame_count, mc_total_frames_processed, obsVars>>
    /\ UNCHANGED notMonVars

\* `list(d)[-limit:]`: a new list of the last `limit` entries; -0 is 0, so
\* limit 0 gives the whole list
last_entries(d, limit) ==
    IF limit = 0 \/ limit >= Len(d) THEN d
    ELSE SubSeq(d, Len(d) - limit + 1, Len(d))

collectorState == <<self_max_history, _processing_times, _fps_history,
                    _frame_age_history, mc_detections_history,
                    _timing_breakdown, _frame_age, _frame_count,
                    mc_total_frames_processed, mc_updates, arrived>>

\* get_detections (lines 237-247)
GetDetections ==
    /\ mc_reads < MaxCollectorReads
    /\ \E limit \in {0, 1, 10} :
         obs_detections' = last_entries(mc_detections_history, limit)
    /\ mc_reads' = mc_reads + 1
    /\ UNCHANGED <<collectorState, heapVars, obs_timing>>
    /\ UNCHANGED notMonVars

\* get_timing_breakdown (lines 267-274): `self._timing_breakdown.copy()`
GetTimingBreakdown ==
    /\ mc_reads < MaxCollectorReads
    /\ obs_timing' = _timing_breakdown
    /\ mc_reads' = mc_reads + 1
    /\ UNCHANGED <<collectorState, heapVars, obs_detections>>
    /\ UNCHANGED notMonVars

\* the observer removes the first entry of the list it was given
Observer_PopReturnedList ==
    /\ obs_detections # <<>>
    /\ obs_detections' = Tail(obs_detections)
    /\ UNCHANGED <<collectorState, heapVars, obs_timing, mc_reads>>
    /\ UNCHANGED notMonVars

\* the observer assigns to a key of a detection record it was given
Observer_SetReturnedRecord ==
    /\ \E i \in DOMAIN obs_detections :
         /\ dicts[obs_detections[i]].confidence # 0
         /\ dicts' = set_item(dicts, obs_detections[i], "confidence", 0)
    /\ UNCHANGED <<collectorState, lists, obsVars>>
    /\ UNCHANGED notMonVars

\* the observer assigns to an element of the bbox list of a record it was
\* given
Observer_SetReturnedBbox ==
    /\ \E i \in DOMAIN obs_detections :
         LET ref == dicts[obs_detections[i]].bbox
         IN  /\ lists[ref][1] # 0
             /\ lists' = [lists EXCEPT ![ref] = [@ EXCEPT ![1] = 0]]
    /\ UNCHANGED <<collectorState, dicts, obsVars>>
    /\ UNCHANGED notMonVars

\* the observer assigns to a key of the timing dict it was given
Observer_SetReturnedTiming ==
    /\ obs_timing # <<>>
    /\ obs_timing["total"] # 0
    /\ obs_timing' = [obs_timing EXCEPT !["total"] = 0]
    /\ UNCHANGED <<collectorState, heapVars, obs_detections, mc_reads>>
    /\ UNCHANGED notMonVars

ObserverMutates ==
    \/ Observer_PopReturnedList \/ Observer_SetReturnedRecord
    \/ Observer_SetReturnedBbox \/ Observer_SetReturnedTiming

NextCollector ==
    \/ UpdateProcessingTime \/ UpdateTimingBreakdown \/ UpdateFrameAge
    \/ AddDetection \/ GetDetections \/ GetTimingBreakdown
    \/ ObserverMutates

(***************************************************************************)
(* Frame buffers and background workers of StreamProcessor                 *)
(* (stream_processor.py): every array is an object of the heap, and a      *)
(* queue item holds a reference to one.                                    *)
(***************************************************************************)
MaxBufIterations == 1      \* iterations of run() that are explored
MaxBufDetections == 1      \* detections of one frame that pass the filters

InitBuffers ==
    /\ bf_heap = <<>>
    /\ bf_frame = None
    /\ bf_annotated = None
    /\ bf_db_queue = <<>>
    /\ bf_file_queue = <<>>
    /\ bf_db_unfinished = 0
    /\ bf_file_unfinished = 0
    /\ bf_pc = "read"
    /\ bf_iter = 0
    /\ bf_dets = 0
    /\ dbw_pc = "get"
    /\ dbw_task = None
    /\ fw2_pc = "get"
    /\ fw2_task = None
    /\ bf_got = [db |-> <<>>, file |-> <<>>]
    /\ bf_attempted = {}
    /\ bf_outcome = [db |-> "none", file |-> "none"]

IdleBuffers == InitBuffers

producerVars == <<bf_heap, bf_frame, bf_annotated, bf_pc, bf_iter, bf_dets>>
dbWorkerVars == <<dbw_pc, dbw_task>>
fileWorkerVars == <<fw2_pc, fw2_task>>
bufHist      == <<bf_got, bf_attempted, bf_outcome>>

\* the history of a worker after a pass that raised, or that did not
outcome_after(o, raises) ==
    IF raises THEN "failed"
    ELSE IF o = "none" THEN "none" ELSE "recovered"

\* a new array: the heap with one more object, whose reference is its index
new_buffer(content) == Append(bf_heap, content)

\* a copy that is the object it was given
deepcopy_alias(ref) == ref

\* copy.deepcopy of an array (lines 156, 203, 273): the reference of a new
\* object
deepcopy(ref) == Len(bf_heap) + 1

\* the heap once deepcopy(ref) returned `copy`: the new object has the
\* content of the one it was copied from
heap_with(copy, ref) ==
    [i \in 1..Max(Len(bf_heap), copy) |->
        IF i = copy THEN bf_heap[ref] ELSE bf_heap[i]]

\* queue.Queue.put_nowait on unfinished_tasks: one more when the item went
\* in
unfinished_after(n, q, q2) == IF Len(q2) > Len(q) THEN n + 1 ELSE n

\* `ret, frame = cap.read()` (lines 355-376) and
\* `frame = self._resize_frame_to_fullhd(frame)` (line 391): a failed read
\* ends the iteration, a frame is a new array
Buf_Read ==
    /\ bf_pc = "read"
    /\ bf_iter < MaxBufIterations
    /\ \E ret \in BOOLEAN :
          IF ret
          THEN /\ bf_heap' = new_buffer([picture |-> bf_iter + 1,
                                         annotated |-> FALSE])
               /\ bf_frame' = Len(bf_heap')
               /\ bf_pc' = "snapshot"
               /\ UNCHANGED bf_iter
          ELSE /\ bf_iter' = bf_iter + 1
               /\ UNCHANGED <<bf_heap, bf_frame, bf_pc>>
    /\ UNCHANGED <<bf_annotated, bf_dets, bf_db_queue, bf_file_queue,
                   bf_db_unfinished, bf_file_unfinished, dbWorkerVars,
                   fileWorkerVars, bufHist>>
    /\ UNCHANGED notBufVars

\* _save_frame_to_database_if_needed (lines 195-215): when the interval has
\* elapsed (`due`), a copy of the frame is queued; deepcopy raising
\* (`copied` false) and a full queue leave the queue as it was
Buf_Snapshot ==
    /\ bf_pc = "snapshot"
    /\ \E due \in BOOLEAN, copied \in BOOLEAN :
          IF due /\ copied
          THEN LET frame_copy == deepcopy(bf_frame)
               IN  /\ bf_heap' = heap_with(frame_copy, bf_frame)
                   /\ bf_db_queue' = put_nowait(bf_db_queue, frame_copy)
                   /\ bf_db_unfinished' =
                          unfinished_after(bf_db_unfinished, bf_db_queue,
                                           bf_db_queue')
          ELSE UNCHANGED <<bf_heap, bf_db_queue, bf_db_unfinished>>
    /\ bf_pc' = "detect"
    /\ UNCHANGED <<bf_frame, bf_annotated, bf_iter, bf_dets, bf_file_queue,
                   bf_file_unfinished, dbWorkerVars, fileWorkerVars,
                   bufHist>>
    /\ UNCHANGED notBufVars

\* detect_objects (line 402), `if detections:` (line 415) and the two
\* filters of _process_detections (lines 230-240): `n` detections go on to
\* the annotation
Buf_Detect ==
    /\ bf_pc = "detect"
    /\ \E n \in 0..MaxBufDetections :
          /\ bf_dets' = n
          /\ bf_pc' = IF n = 0 THEN "finish" ELSE "annotate"
    /\ UNCHANGED <<bf_heap, bf_frame, bf_annotated, bf_iter, bf_db_queue,
                   bf_file_queue, bf_db_unfinished, bf_file_unfinished,
                   dbWorkerVars, fileWorkerVars, bufHist>>
    /\ UNCHANGED notBufVars

\* the position after one detection of the batch has been dealt with
after_detection(n) == IF n > 0 THEN "annotate" ELSE "finish"

\* `annotated_frame = result.plot()` for the first result, `continue` when
\* there is none (lines 243-249): plot() draws on a new array
Buf_Annotate ==
    /\ bf_pc = "annotate"
    /\ \E plotted \in BOOLEAN :
          IF plotted
          THEN /\ bf_heap' = new_buffer([picture |-> bf_heap[bf_frame].picture,
                                         annotated |-> TRUE])
               /\ bf_annotated' = Len(bf_heap')
               /\ bf_pc' = "save_file"
               /\ UNCHANGED bf_dets
          ELSE /\ bf_annotated' = None
               /\ bf_dets' = bf_dets - 1
               /\ bf_pc' = after_detection(bf_dets')
               /\ UNCHANGED bf_heap
    /\ UNCHANGED <<bf_frame, bf_iter, bf_db_queue, bf_file_queue,
                   bf_db_unfinished, bf_file_unfinished, dbWorkerVars,
                   fileWorkerVars, bufHist>>
    /\ UNCHANGED notBufVars

\* _save_detection (lines 154-163), called at line 268
Buf_SaveDetection ==
    /\ bf_pc = "save_file"
    /\ \E copied \in BOOLEAN :
          IF copied
          THEN LET frame_copy == deepcopy(bf_annotated)
               IN  /\ bf_heap' = heap_with(frame_copy, bf_annotated)
                   /\ bf_file_queue' = put_nowait(bf_file_queue, frame_copy)
                   /\ bf_file_unfinished' =
                          unfinished_after(bf_file_unfinished, bf_file_queue,
                                           bf_file_queue')
          ELSE UNCHANGED <<bf_heap, bf_file_queue, bf_file_unfinished>>
    /\ bf_pc' = "save_db"
    /\ UNCHANGED <<bf_frame, bf_annotated, bf_iter, bf_dets, bf_db_queue,
                   bf_db_unfinished, dbWorkerVars, fileWorkerVars, bufHist>>
    /\ UNCHANGED notBufVars

\* the database save of a detection (lines 271-278)
Buf_QueueDatabaseSave ==
    /\ bf_pc = "save_db"
    /\ \E copied \in BOOLEAN :
          IF copied
          THEN LET frame_copy == deepcopy(bf_annotated)
               IN  /\ bf_heap' = heap_with(frame_copy, bf_annotated)
                   /\ bf_db_queue' = put_nowait(bf_db_queue, frame_copy)
                   /\ bf_db_unfinished' =
                          unfinished_after(bf_db_unfinished, bf_db_queue,
                                           bf_db_queue')
          ELSE UNCHANGED <<bf_heap, bf_db_queue, bf_db_unfinished>>
    /\ bf_dets' = bf_dets - 1
    /\ bf_pc' = after_detection(bf_dets')
    /\ UNCHANGED <<bf_frame, bf_annotated, bf_iter, bf_file_queue,
                   bf_file_unfinished, dbWorkerVars, fileWorkerVars,
                   bufHist>>
    /\ UNCHANGED notBufVars

\* the return of _process_detections, whose `annotated_frame` is gone, and
\* the end of the iteration of run() (lines 416-447)
Buf_Finish ==
    /\ bf_pc = "finish"
    /\ bf_annotated' = None
    /\ bf_iter' = bf_iter + 1
    /\ bf_pc' = "read"
    /\ UNCHANGED <<bf_heap, bf_frame, bf_dets, bf_db_queue, bf_file_queue,
                   bf_db_unfinished, bf_file_unfinished, dbWorkerVars,
                   fileWorkerVars, bufHist>>
    /\ UNCHANGED notBufVars

\* `task = self.db_queue.get(timeout=1)` returning a task and
\* `frame, confidence, timestamp = task` (lines 83-87); queue.Empty
\* (lines 101-110) leaves everything as it is
DbWorker_Get ==
    /\ dbw_pc = "get"
    /\ bf_db_queue # <<>>
    /\ dbw_task' = Head(bf_db_queue)
    /\ bf_db_queue' = Tail(bf_db_queue)
    /\ dbw_pc' = "save"
    /\ bf_got' = [bf_got EXCEPT !.db = Append(@, Head(bf_db_queue))]
    /\ UNCHANGED <<producerVars, bf_file_queue, bf_db_unfinished,
                   bf_file_unfinished, fileWorkerVars, bf_attempted,
                   bf_outcome>>
    /\ UNCHANGED notBufVars

\* save_frame_to_database and the monitoring update (lines 88-98): each
\* returns or raises
DbWorker_Save ==
    /\ dbw_pc = "save"
    /\ bf_attempted' = bf_attempted \cup {dbw_task}
    /\ \E raises \in BOOLEAN :
          /\ dbw_pc' = IF raises THEN "except" ELSE "task_done"
          /\ bf_outcome' = [bf_outcome EXCEPT
                                !.db = outcome_after(@, raises)]
    /\ UNCHANGED <<producerVars, bf_db_queue, bf_file_queue,
                   bf_db_unfinished, bf_file_unfinished, dbw_task,
                   fileWorkerVars, bf_got>>
    /\ UNCHANGED notBufVars

\* queue.Queue.task_done: ValueError when no task is unfinished
task_done_raises(n) == n <= 0

\* `self.db_queue.task_done()` at the end of the try block (line 100); a
\* ValueError goes to the handler of line 111
DbWorker_TaskDone ==
    /\ dbw_pc = "task_done"
    /\ IF task_done_raises(bf_db_unfinished)
       THEN /\ dbw_pc' = "except"
            /\ UNCHANGED <<bf_db_unfinished, dbw_task>>
       ELSE /\ bf_db_unfinished' = bf_db_unfinished - 1
            /\ dbw_pc' = "get"
            /\ dbw_task' = None
    /\ UNCHANGED <<producerVars, bf_db_queue, bf_file_queue,
                   bf_file_unfinished, fileWorkerVars, bufHist>>
    /\ UNCHANGED notBufVars

\* a handler that lets the exception go on: the thread ends
DbWorker_Except_Reraise ==
    /\ dbw_pc = "except"
    /\ dbw_pc' = "dead"
    /\ UNCHANGED <<producerVars, bf_db_queue, bf_file_queue,
                   bf_db_unfinished, bf_file_unfinished, dbw_task,
                   fileWorkerVars, bufHist>>
    /\ UNCHANGED notBufVars

\* `except Exception as e:` of _db_worker (lines 111-113): the error is
\* printed, the task is marked done and the loop goes on; a ValueError of
\* task_done leaves the handler and ends the thread
DbWorker_Except ==
    /\ dbw_pc = "except"
    /\ IF task_done_raises(bf_db_unfinished)
       THEN /\ dbw_pc' = "dead"
            /\ UNCHANGED <<bf_db_unfinished, dbw_task>>
       ELSE /\ bf_db_unfinished' = bf_db_unfinished - 1
            /\ dbw_pc' = "get"
            /\ dbw_task' = None
    /\ UNCHANGED <<producerVars, bf_db_queue, bf_file_queue,
                   bf_file_unfinished, fileWorkerVars, bufHist>>
    /\ UNCHANGED notBufVars

\* `task = self.file_queue.get(timeout=1)` returning a task and
\* `annotated_frame, timestamp = task` (lines 120-124)
FileWorker2_Get ==
    /\ fw2_pc = "get"
    /\ bf_file_queue # <<>>
    /\ fw2_task' = Head(bf_file_queue)
    /\ bf_file_queue' = Tail(bf_file_queue)
    /\ fw2_pc' = "cleanup"
    /\ bf_got' = [bf_got EXCEPT !.file = Append(@, Head(bf_file_queue))]
    /\ UNCHANGED <<producerVars, bf_db_queue, bf_db_unfinished,
                   bf_file_unfinished, dbWorkerVars, bf_attempted,
                   bf_outcome>>
    /\ UNCHANGED notBufVars

\* `cleanup_results_folder(...)` (line 125): the reclamation pass returns or
\* raises
FileWorker2_Cleanup ==
    /\ fw2_pc = "cleanup"
    /\ bf_attempted' = bf_attempted \cup {fw2_task}
    /\ \E raises \in BOOLEAN :
          /\ fw2_pc' = IF raises THEN "except" ELSE "imwrite"
          /\ bf_outcome' = IF raises
                           THEN [bf_outcome EXCEPT !.file = "failed"]
                           ELSE bf_outcome
    /\ UNCHANGED <<producerVars, bf_db_queue, bf_file_queue,
                   bf_db_unfinished, bf_file_unfinished, dbWorkerVars,
                   fw2_task, bf_got>>
    /\ UNCHANGED notBufVars

\* `cv2.imwrite(output_file, annotated_frame)` and the monitoring update
\* (lines 126-137)
FileWorker2_Imwrite ==
    /\ fw2_pc = "imwrite"
    /\ \E raises \in BOOLEAN :
          /\ fw2_pc' = IF raises THEN "except" ELSE "task_done"
          /\ bf_outcome' = [bf_outcome EXCEPT
                                !.file = outcome_after(@, raises)]
    /\ UNCHANGED <<producerVars, bf_db_queue, bf_file_queue,
                   bf_db_unfinished, bf_file_unfinished, dbWorkerVars,
                   fw2_task, bf_got, bf_attempted>>
    /\ UNCHANGED notBufVars

\* `self.file_queue.task_done()` at the end of the try block (line 139)
FileWorker2_TaskDone ==
    /\ fw2_pc = "task_done"
    /\ IF task_done_raises(bf_file_unfinished)
       THEN /\ fw2_pc' = "except"
            /\ UNCHANGED <<bf_file_unfinished, fw2_task>>
       ELSE /\ bf_file_unfinished' = bf_file_unfinished - 1
            /\ fw2_pc' = "get"
            /\ fw2_task' = None
    /\ UNCHANGED <<producerVars, bf_db_queue, bf_file_queue,
                   bf_db_unfinished, dbWorkerVars, bufHist>>
    /\ UNCHANGED notBufVars

\* `except Exception as e:` of _file_worker (lines 150-152)
FileWorker2_Except ==
    /\ fw2_pc = "except"
    /\ IF task_done_raises(bf_file_unfinished)
       THEN /\ fw2_pc' = "dead"
            /\ UNCHANGED <<bf_file_unfinished, fw2_task>>
       ELSE /\ bf_file_unfinished' = bf_file_unfinished - 1
            /\ fw2_pc' = "get"
            /\ fw2_task' = None
    /\ UNCHANGED <<producerVars, bf_db_queue, bf_file_queue,
                   bf_db_unfinished, dbWorkerVars, bufHist>>
    /\ UNCHANGED notBufVars

NextBuffers ==
    \/ Buf_Read
    \/ Buf_Snapshot
    \/ Buf_Detect
    \/ Buf_Annotate
    \/ Buf_SaveDetection
    \/ Buf_QueueDatabaseSave
    \/ Buf_Finish
    \/ DbWorker_Get
    \/ DbWorker_Save
    \/ DbWorker_TaskDone
    \/ DbWorker_Except
    \/ FileWorker2_Get
    \/ FileWorker2_Cleanup
    \/ FileWorker2_Imwrite
    \/ FileWorker2_TaskDone
    \/ FileWorker2_Except

(***************************************************************************)
(* MQTTHandler.publish_detection (mqtt_handler.py, lines 90-114)           *)
(***************************************************************************)
MaxPublishCalls == 2       \* calls of publish_detection that are explored
MaxPings        == 1       \* passes of the ping loop that are explored

MQTT_ERR_SUCCESS == 0      \* paho.mqtt.client.MQTT_ERR_SUCCESS
MQTT_ERR_OTHER   == MQTT_ERR_SUCCESS + 1   \* an rc that is not success
ClassNames == {"Person", "Cat"}      \* ObjectDetector.CLASS_NAMES

InitMqtt ==
    /\ mq_connected = FALSE
    /\ mq_pc = "idle"
    /\ mq_class_name = "Cat"
    /\ mq_rc = MQTT_ERR_SUCCESS
    /\ mq_printed = "nothing"
    /\ mq_outbox = <<>>
    /\ mq_attempts = 0
    /\ mq_ending = "none"
    /\ mq_case = "none"
    /\ mq_calls = 0
    /\ mq_pings = 0

IdleMqtt == InitMqtt

callVars == <<mq_pc, mq_class_name, mq_rc, mq_printed, mq_attempts,
              mq_ending, mq_case, mq_calls>>

\* _on_connect (lines 28-35), called by the network thread
OnConnect ==
    /\ \E rc \in {0, 5} : mq_connected' = (rc = 0)
    /\ UNCHANGED <<callVars, mq_outbox, mq_pings>>
    /\ UNCHANGED notMqttVars

\* _on_disconnect (lines 37-43), called by the network thread
OnDisconnect ==
    /\ mq_connected' = FALSE
    /\ UNCHANGED <<callVars, mq_outbox, mq_pings>>
    /\ UNCHANGED notMqttVars

\* one pass of the loop of _mqtt_ping (lines 79-88)
MqttPing ==
    /\ mq_pings < MaxPings
    /\ mq_pings' = mq_pings + 1
    /\ \E raises \in BOOLEAN :
          mq_outbox' = IF mq_connected /\ ~ raises
                       THEN <<"topic", "ping">>
                       ELSE mq_outbox
    /\ UNCHANGED <<mq_connected, callVars>>
    /\ UNCHANGED notMqttVars

\* a call of publish_detection (line 254 of stream_processor.py)
PublishDetection_Call ==
    /\ mq_pc = "idle"
    /\ mq_calls < MaxPublishCalls
    /\ mq_calls' = mq_calls + 1
    /\ \E class_name \in ClassNames : mq_class_name' = class_name
    /\ mq_attempts' = 0
    /\ mq_ending' = "none"
    /\ mq_case' = "none"
    /\ mq_printed' = "nothing"
    /\ mq_pc' = "check"
    /\ UNCHANGED <<mq_connected, mq_rc, mq_outbox, mq_pings>>
    /\ UNCHANGED notMqttVars

\* `if not self.connected: print(...)` (lines 93-94), outside the try block
PublishDetection_CheckConnected ==
    /\ mq_pc = "check"
    /\ mq_printed' = IF ~ mq_connected THEN "not connected" ELSE mq_printed
    /\ mq_pc' = "publish"
    /\ UNCHANGED <<mq_connected, mq_class_name, mq_rc, mq_outbox,
                   mq_attempts, mq_ending, mq_case, mq_calls, mq_pings>>
    /\ UNCHANGED notMqttVars

\* the topic and the message (lines 97-102) and
\* `result = self.client.publish(extended_topic, message, qos=0)`
\* (line 104): json.dumps raises, or the publish is called and returns a
\* result whose rc is success or an error, or raises
PublishDetection_Publish ==
    /\ mq_pc = "publish"
    /\ \E does \in {"dumps raises", "accepted", "rejected", "raises"} :
          /\ mq_case' = does
          /\ mq_attempts' = IF does = "dumps raises" THEN mq_attempts
                            ELSE mq_attempts + 1
          /\ mq_outbox' = IF does = "accepted"
                          THEN <<"topic", mq_class_name>>
                          ELSE mq_outbox
          /\ mq_rc' = IF does = "accepted" THEN MQTT_ERR_SUCCESS
                      ELSE IF does = "rejected" THEN MQTT_ERR_OTHER
                      ELSE mq_rc
          /\ mq_pc' = IF does \in {"accepted", "rejected"} THEN "result"
                      ELSE "except"
    /\ UNCHANGED <<mq_connected, mq_class_name, mq_printed, mq_ending,
                   mq_calls, mq_pings>>
    /\ UNCHANGED notMqttVars

\* `if result.rc == mqtt.MQTT_ERR_SUCCESS:` with its two prints
\* (lines 107-111)
PublishDetection_CheckResult ==
    /\ mq_pc = "result"
    /\ mq_printed' = IF mq_rc = MQTT_ERR_SUCCESS
                     THEN IF mq_connected THEN "published" ELSE mq_printed
                     ELSE "publish failed"
    /\ mq_pc' = "return"
    /\ UNCHANGED <<mq_connected, mq_class_name, mq_rc, mq_outbox,
                   mq_attempts, mq_ending, mq_case, mq_calls, mq_pings>>
    /\ UNCHANGED notMqttVars

\* a handler that lets the exception go on to the caller
PublishDetection_Except_Reraise ==
    /\ mq_pc = "except"
    /\ mq_ending' = "raised"
    /\ mq_pc' = "idle"
    /\ UNCHANGED <<mq_connected, mq_class_name, mq_rc, mq_printed,
                   mq_outbox, mq_attempts, mq_case, mq_calls, mq_pings>>
    /\ UNCHANGED notMqttVars

\* `except Exception as e: print(...)` (lines 113-114)
PublishDetection_Except ==
    /\ mq_pc = "except"
    /\ mq_printed' = "publish error"
    /\ mq_pc' = "return"
    /\ UNCHANGED <<mq_connected, mq_class_name, mq_rc, mq_outbox,
                   mq_attempts, mq_ending, mq_case, mq_calls, mq_pings>>
    /\ UNCHANGED notMqttVars

\* the end of the function body: the call returns None
PublishDetection_Return ==
    /\ mq_pc = "return"
    /\ mq_ending' = "returned"
    /\ mq_pc' = "idle"
    /\ UNCHANGED <<mq_connected, mq_class_name, mq_rc, mq_printed,
                   mq_outbox, mq_attempts, mq_case, mq_calls, mq_pings>>
    /\ UNCHANGED notMqttVars

NextMqtt ==
    \/ OnConnect
    \/ OnDisconnect
    \/ MqttPing
    \/ PublishDetection_Call
    \/ PublishDetection_CheckConnected
    \/ PublishDetection_Publish
    \/ PublishDetection_CheckResult
    \/ PublishDetection_Except
    \/ PublishDetection_Return

(***************************************************************************)
(* Dynamic frame skipping (stream_processor.py, lines 337-346): durations  *)
(* are whole numbers of ticks, so that the mean of the history is the      *)
(* exact fraction sum / len.                                               *)
(***************************************************************************)
MaxLatency == 20                \* largest detector latency explored, in ticks
MaxRecorded == 12               \* iterations whose duration is recorded

TicksPerSecond       == 2       \* resolution of the durations
target_fps           == 1       \* self.target_fps = 1.0 (line 42)
max_processing_time  == TicksPerSecond \div target_fps  \* line 43, in ticks
max_processing_times == 10      \* self.max_processing_times (line 41)
normal_skip          == 3       \* `max_frames_to_skip = 3` (line 346)
skip_cap             == 10      \* the cap of line 342

RECURSIVE sum(_)
sum(seq) == IF seq = <<>> THEN 0 ELSE Head(seq) + sum(Tail(seq))

\* int(x) of a fraction num / den with den > 0: truncation toward zero
int(num, den) == IF num >= 0 THEN num \div den ELSE -((-num) \div den)

\* the skip count without the cap of line 342
frames_to_skip_uncapped(times) ==
    LET n == IF times = <<>> THEN 1 ELSE Len(times)
        s == sum(times)
    IN  IF s > max_processing_time * n
        THEN int(s, n * max_processing_time) + 2
        ELSE normal_skip

\* lines 339-346: avg_processing_time is sum / len, or 0 for an empty
\* history; avg > max_processing_time is s > max_processing_time * n, and
\* avg / max_processing_time is s / (n * max_processing_time)
frames_to_skip(times) ==
    LET n == IF times = <<>> THEN 1 ELSE Len(times)
        s == sum(times)
    IN  IF s > max_processing_time * n
        THEN Min(int(s, n * max_processing_time) + 2, skip_cap)
        ELSE normal_skip

InitSkip ==
    /\ processing_times = <<>>
    /\ max_frames_to_skip = normal_skip
    /\ sk_pc = "compute"
    /\ sk_latency \in 0..MaxLatency
    /\ sk_all = <<>>

IdleSkip == InitSkip /\ sk_latency = 0

\* the computation of max_frames_to_skip at the head of an iteration
\* (lines 339-346)
Skip_Compute ==
    /\ sk_pc = "compute"
    /\ max_frames_to_skip' = frames_to_skip(processing_times)
    /\ sk_pc' = "process"
    /\ UNCHANGED <<processing_times, sk_latency, sk_all>>
    /\ UNCHANGED notSkipVars

\* a failed read (lines 365-376): `continue` without a duration
Skip_ReadFailed ==
    /\ sk_pc = "process"
    /\ sk_pc' = "compute"
    /\ UNCHANGED <<processing_times, max_frames_to_skip, sk_latency,
                   sk_all>>
    /\ UNCHANGED notSkipVars

\* a history that, once full, takes no new duration
record_time_keep_oldest(times, t) ==
    IF Len(times) >= max_processing_times THEN times ELSE Append(times, t)

\* `self.processing_times.append(total_processing_time)` and
\* `if len(self.processing_times) > self.max_processing_times:
\* self.processing_times.pop(0)` (lines 441-443)
record_time(times, t) ==
    LET appended == Append(times, t)
    IN  IF Len(appended) > max_processing_times
        THEN Tail(appended) ELSE appended

\* the rest of the iteration and lines 441-443: the duration of the
\* iteration, the latency of the detector and what the other steps took,
\* is appended and the oldest one leaves a history of more than
\* max_processing_times
Skip_Record ==
    /\ sk_pc = "process"
    /\ Len(sk_all) < MaxRecorded
    /\ \E other \in 0..1 :
          /\ processing_times' =
                  record_time(processing_times, sk_latency + other)
          /\ sk_all' = Append(sk_all, sk_latency + other)
    /\ sk_pc' = "compute"
    /\ UNCHANGED <<max_frames_to_skip, sk_latency>>
    /\ UNCHANGED notSkipVars

NextSkip == Skip_Compute \/ Skip_ReadFailed \/ Skip_Record

(***************************************************************************)
(* The periodic snapshot (stream_processor.py, lines 195-215) over several *)
(* intervals: the clock advances by half an interval at a time, between    *)
(* the steps of the iterations of run().                                   *)
(***************************************************************************)
MaxHalfHours == 4          \* half intervals that go by

HalfInterval == frame_save_interval \div 2

InitSnapshot ==
    /\ sn_now = StartTime
    /\ sn_last_frame_save_time = 0
    /\ sn_db_queue = <<>>
    /\ sn_pc = "snapshot"
    /\ sn_half_hours = 0
    /\ sn_enqueued_at = <<>>
    /\ sn_due_not_enqueued = "never"

IdleSnapshot == InitSnapshot

\* time going by
Snap_Tick ==
    /\ sn_half_hours < MaxHalfHours
    /\ sn_half_hours' = sn_half_hours + 1
    /\ sn_now' = sn_now + HalfInterval
    /\ UNCHANGED <<sn_last_frame_save_time, sn_db_queue, sn_pc,
                   sn_enqueued_at, sn_due_not_enqueued>>
    /\ UNCHANGED notSnapVars

\* a snapshot whose timer is set only once the frame has been queued
Snap_SaveFrameIfNeeded_RetryAfterDrop ==
    /\ sn_pc = "snapshot"
    /\ LET current_time_ == sn_now
       IN  IF current_time_ - sn_last_frame_save_time >= frame_save_interval
           THEN /\ \E copied \in BOOLEAN :
                      /\ sn_db_queue' =
                            IF copied
                            THEN put_nowait(sn_db_queue,
                                            [confidence |-> 0,
                                             annotated |-> FALSE])
                            ELSE sn_db_queue
                      /\ IF Len(sn_db_queue') > Len(sn_db_queue)
                         THEN /\ sn_enqueued_at' =
                                     Append(sn_enqueued_at, current_time_)
                              /\ UNCHANGED sn_due_not_enqueued
                         ELSE /\ sn_due_not_enqueued' =
                                     IF copied THEN "queue full"
                                     ELSE "copy failed"
                              /\ UNCHANGED sn_enqueued_at
                /\ sn_last_frame_save_time' =
                      IF Len(sn_db_queue') > Len(sn_db_queue)
                      THEN current_time_ ELSE sn_last_frame_save_time
           ELSE UNCHANGED <<sn_last_frame_save_time, sn_db_queue,
                            sn_enqueued_at, sn_due_not_enqueued>>
    /\ sn_pc' = "detections"
    /\ UNCHANGED <<sn_now, sn_half_hours>>
    /\ UNCHANGED notSnapVars

\* _save_frame_to_database_if_needed (lines 195-215), called at line 398
\* of an iteration that read a frame: the timer is set before the copy and
\* the enqueue are tried; deepcopy raising (`copied` false) and a full
\* queue leave the queue as it was
Snap_SaveFrameIfNeeded ==
    /\ sn_pc = "snapshot"
    /\ LET current_time_ == sn_now
       IN  IF current_time_ - sn_last_frame_save_time >= frame_save_interval
           THEN /\ sn_last_frame_save_time' = current_time_
                /\ \E copied \in BOOLEAN :
                      /\ sn_db_queue' =
                            IF copied
                            THEN put_nowait(sn_db_queue,
                                            [confidence |-> 0,
                                             annotated |-> FALSE])
                            ELSE sn_db_queue
                      /\ IF Len(sn_db_queue') > Len(sn_db_queue)
                         THEN /\ sn_enqueued_at' =
                                     Append(sn_enqueued_at, current_time_)
                              /\ UNCHANGED sn_due_not_enqueued
                         ELSE /\ sn_due_not_enqueued' =
                                     IF copied THEN "queue full"
                                     ELSE "copy failed"
                              /\ UNCHANGED sn_enqueued_at
           ELSE UNCHANGED <<sn_last_frame_save_time, sn_db_queue,
                            sn_enqueued_at, sn_due_not_enqueued>>
    /\ sn_pc' = "detections"
    /\ UNCHANGED <<sn_now, sn_half_hours>>
    /\ UNCHANGED notSnapVars

\* detection and _process_detections (lines 402-416, 217-278): a surviving
\* detection queues a copy of the annotated frame (lines 271-278); the
\* iteration ends
Snap_ProcessDetections ==
    /\ sn_pc = "detections"
    /\ \E survives \in BOOLEAN :
          sn_db_queue' =
              IF survives
              THEN put_nowait(sn_db_queue,
                              [confidence |-> 1, annotated |-> TRUE])
              ELSE sn_db_queue
    /\ sn_pc' = "snapshot"
    /\ UNCHANGED <<sn_now, sn_last_frame_save_time, sn_half_hours,
                   sn_enqueued_at, sn_due_not_enqueued>>
    /\ UNCHANGED notSnapVars

\* one pass of _db_worker that gets a task (lines 78-113)
Snap_DbWorker ==
    /\ sn_db_queue # <<>>
    /\ sn_db_queue' = Tail(sn_db_queue)
    /\ UNCHANGED <<sn_now, sn_last_frame_save_time, sn_pc, sn_half_hours,
                   sn_enqueued_at, sn_due_not_enqueued>>
    /\ UNCHANGED notSnapVars

NextSnapshot ==
    \/ Snap_Tick
    \/ Snap_SaveFrameIfNeeded
    \/ Snap_ProcessDetections
    \/ Snap_DbWorker

(***************************************************************************)
(* The mode checks of get_latest_frame and get_fresh_frame                 *)
(* (rtsp_stream_reader.py, lines 193-194 and 259-260).                     *)
(***************************************************************************)
MaxWrongCalls == 1         \* calls in the wrong mode that are explored

InitMode == raised = <<>>

IdleMode == InitMode

\* get_latest_frame() on a reader whose mode is not 'continuous'
\* (lines 259-260): RuntimeError before anything else is done
GetLatestFrame_WrongMode ==
    /\ client_pc = "idle"
    /\ ~ mode_allows(mode, "continuous")
    /\ Len(raised) < MaxWrongCalls
    /\ raised' = Append(raised, "get_latest_frame")
    /\ UNCHANGED notModeVars

\* get_fresh_frame() on a reader whose mode is not 'reconnect_per_frame'
\* (lines 193-194): RuntimeError before anything else is done
GetFreshFrame_WrongMode ==
    /\ fresh_pc = "idle"
    /\ ~ mode_allows(mode, "reconnect_per_frame")
    /\ Len(raised) < MaxWrongCalls
    /\ raised' = Append(raised, "get_fresh_frame")
    /\ UNCHANGED notModeVars

\* the reader in either mode, with callers that use both read methods
\* whatever the mode is
NextMode ==
    \/ ReadLoop
    \/ GetLatestFrame
    \/ GetFreshFrame
    \/ GetLatestFrame_WrongMode
    \/ GetFreshFrame_WrongMode

(***************************************************************************)
(* The reconnection backoff of _read_loop (rtsp_stream_reader.py): the     *)
(* outer loop with its two waits; what happens while a connection is read  *)
(* is one step that ends in a disconnect or in an exception.               *)
(***************************************************************************)
MaxConsecutiveFailures == 8    \* failures in a row that are explored

InitBackoff ==
    /\ bk_retry_delay = initial_retry_delay
    /\ bk_pc = "loop"
    /\ bk_stopped = FALSE
    /\ bk_failures = 0
    /\ bk_waited = <<>>

IdleBackoff == InitBackoff

\* `while not self._stopped:` (line 97)
Backoff_Head ==
    /\ bk_pc = "loop"
    /\ bk_pc' = IF bk_stopped THEN "done" ELSE "open"
    /\ UNCHANGED <<bk_retry_delay, bk_stopped, bk_failures, bk_waited>>
    /\ UNCHANGED notBackoffVars

\* lines 99-125: the capture is made and configured, which may raise; a
\* capture that is not opened is a failed open, an opened one sets
\* retry_delay back to its initial value
Backoff_Open ==
    /\ bk_pc = "open"
    /\ \E outcome \in {"opened", "closed", "raise"} :
          /\ outcome # "opened" => bk_failures < MaxConsecutiveFailures
          /\ bk_pc' = CASE outcome = "opened" -> "read"
                        [] outcome = "closed" -> "sleep"
                        [] outcome = "raise"  -> "except"
          /\ bk_retry_delay' = IF outcome = "opened" THEN initial_retry_delay
                               ELSE bk_retry_delay
          /\ bk_failures' = CASE outcome = "opened" -> 0
                              [] outcome = "closed" -> bk_failures + 1
                              [] outcome = "raise"  -> bk_failures
    /\ UNCHANGED <<bk_stopped, bk_waited>>
    /\ UNCHANGED notBackoffVars

\* lines 127-169: the frames of the connection are read until the failure
\* limit, a stop or a closed capture ends the inner loop, after which the
\* capture is released and the outer loop goes on at once, or until a
\* call raises
Backoff_Read ==
    /\ bk_pc = "read"
    /\ \E raises \in BOOLEAN :
          /\ raises => bk_failures < MaxConsecutiveFailures
          /\ bk_pc' = IF raises THEN "except" ELSE "loop"
    /\ UNCHANGED <<bk_retry_delay, bk_stopped, bk_failures, bk_waited>>
    /\ UNCHANGED notBackoffVars

\* `except Exception as e:` up to the release of the capture
\* (lines 171-180)
Backoff_Except ==
    /\ bk_pc = "except"
    /\ bk_failures' = bk_failures + 1
    /\ bk_pc' = "sleep"
    /\ UNCHANGED <<bk_retry_delay, bk_stopped, bk_waited>>
    /\ UNCHANGED notBackoffVars

\* `time.sleep(retry_delay)` and
\* `retry_delay = min(retry_delay * 1.5, max_retry_delay)`
\* (lines 120-122 and 181-182)
Backoff_Sleep ==
    /\ bk_pc = "sleep"
    /\ bk_waited' = <<bk_failures, bk_retry_delay>>
    /\ bk_retry_delay' = NextRetryDelay(bk_retry_delay)
    /\ bk_pc' = "loop"
    /\ UNCHANGED <<bk_stopped, bk_failures>>
    /\ UNCHANGED notBackoffVars

\* stop() setting the flag (line 326)
Backoff_Stop ==
    /\ ~ bk_stopped
    /\ bk_stopped' = TRUE
    /\ UNCHANGED <<bk_retry_delay, bk_pc, bk_failures, bk_waited>>
    /\ UNCHANGED notBackoffVars

NextBackoff ==
    \/ Backoff_Head
    \/ Backoff_Open
    \/ Backoff_Read
    \/ Backoff_Except
    \/ Backoff_Sleep
    \/ Backoff_Stop

(***************************************************************************)
(* The reconnection of StreamProcessor.run: the outer `while True:` with   *)
(* its wait after a failed open, and the inner `while cap.isOpened():`     *)
(* with its count of iterations that read no frame.  cv2.VideoCapture      *)
(* reports a transport failure by isOpened() or read() returning false.    *)
(***************************************************************************)
MaxRunFailures == 8     \* failed opens in a row that are explored
MaxRunFrames   == 2     \* frames read on one connection that are counted

\* `retry_delay = 5`, `consecutive_failures = 0` (lines 282-284)
InitRetry ==
    /\ rt_pc = "connect"
    /\ rt_retry_delay = run_initial_retry_delay
    /\ rt_consecutive_failures = 0
    /\ rt_frame_read_failures = 0
    /\ rt_cap_isOpened = FALSE
    /\ rt_frames = 0
    /\ rt_limit_hit = FALSE
    /\ rt_slept = <<>>

IdleRetry == InitRetry

\* a delay that grows without a cap
RunNextRetryDelay_Uncapped(d) == (d * 3) \div 2

\* `retry_delay = min(retry_delay * 1.5, max_retry_delay)` (line 310)
RunNextRetryDelay(d) == Min((d * 3) \div 2, run_max_retry_delay)

\* lines 298-318: the capture is made; `if not cap.isOpened():` counts the
\* failure, else the counters and the delay are set back
Retry_Connect ==
    /\ rt_pc = "connect"
    /\ \E opened \in BOOLEAN :
          IF opened
          THEN /\ rt_cap_isOpened' = TRUE
               /\ rt_consecutive_failures' = 0
               /\ rt_retry_delay' = run_initial_retry_delay
               /\ rt_frame_read_failures' = 0
               /\ rt_frames' = 0
               /\ rt_pc' = "inner"
          ELSE /\ rt_consecutive_failures < MaxRunFailures
               /\ rt_cap_isOpened' = FALSE
               /\ rt_consecutive_failures' = rt_consecutive_failures + 1
               /\ rt_pc' = "sleep"
               /\ UNCHANGED <<rt_retry_delay, rt_frame_read_failures,
                              rt_frames>>
    /\ UNCHANGED <<rt_limit_hit, rt_slept>>
    /\ UNCHANGED notRetryVars

\* `time.sleep(retry_delay)`, the new delay and `continue` (lines 307-311)
Retry_Sleep ==
    /\ rt_pc = "sleep"
    /\ rt_slept' = <<rt_consecutive_failures, rt_retry_delay>>
    /\ rt_retry_delay' = RunNextRetryDelay(rt_retry_delay)
    /\ rt_pc' = "connect"
    /\ UNCHANGED <<rt_consecutive_failures, rt_frame_read_failures,
                   rt_cap_isOpened, rt_frames, rt_limit_hit>>
    /\ UNCHANGED notRetryVars

\* `while cap.isOpened():` (line 324)
Retry_InnerHead ==
    /\ rt_pc = "inner"
    /\ rt_pc' = IF rt_cap_isOpened THEN "read" ELSE "release"
    /\ UNCHANGED <<rt_retry_delay, rt_consecutive_failures,
                   rt_frame_read_failures, rt_cap_isOpened, rt_frames,
                   rt_limit_hit, rt_slept>>
    /\ UNCHANGED notRetryVars

\* lines 348-447: the reads of one iteration.  Without a frame the count
\* goes up and the loop is left at the limit, else run() sleeps 0.5 s and
\* goes on (the transport may have closed the capture meanwhile); with a
\* frame the count is set to 0 and the frame is processed
Retry_Read ==
    /\ rt_pc = "read"
    /\ \E ret \in BOOLEAN, still_open \in BOOLEAN :
          IF ret
          THEN /\ still_open
               /\ rt_frame_read_failures' = 0
               /\ rt_frames' = Min(rt_frames + 1, MaxRunFrames)
               /\ rt_pc' = "inner"
               /\ UNCHANGED <<rt_cap_isOpened, rt_limit_hit>>
          ELSE /\ rt_frame_read_failures' = rt_frame_read_failures + 1
               /\ rt_cap_isOpened' = still_open
               /\ IF rt_frame_read_failures + 1 >= max_frame_failures
                  THEN rt_pc' = "release" /\ rt_limit_hit' = TRUE
                  ELSE rt_pc' = "inner" /\ UNCHANGED rt_limit_hit
               /\ UNCHANGED rt_frames
    /\ UNCHANGED <<rt_retry_delay, rt_consecutive_failures, rt_slept>>
    /\ UNCHANGED notRetryVars

\* `cap.release()` after the inner loop, then the next turn of
\* `while True:` (lines 452-455)
Retry_Release ==
    /\ rt_pc = "release"
    /\ rt_cap_isOpened' = FALSE
    /\ rt_pc' = "connect"
    /\ UNCHANGED <<rt_retry_delay, rt_consecutive_failures,
                   rt_frame_read_failures, rt_frames, rt_limit_hit,
                   rt_slept>>
    /\ UNCHANGED notRetryVars

NextRetry ==
    \/ Retry_Connect
    \/ Retry_Sleep
    \/ Retry_InnerHead
    \/ Retry_Read
    \/ Retry_Release

(***************************************************************************)
(* The workers' loops and the queue status reports, with monitoring        *)
(* enabled.  Of a queued item only its presence is kept.                   *)
(***************************************************************************)
MaxStatusItems == 1     \* items put on each queue
MaxWait        == 1     \* largest measured wait, in ticks

Workers == {"db", "file"}

\* MonitoringCollector.__init__ and the queues of StreamProcessor.__init__
InitStatus ==
    /\ st_queue = [w \in Workers |-> 0]
    /\ st_unfinished = [w \in Workers |-> 0]
    /\ st_pc = [w \in Workers |-> "get"]
    /\ st_wait = [w \in Workers |-> 0]
    /\ queue_status = [_db_queue_size |-> 0, _db_queue_wait_time |-> 0,
                       _file_queue_size |-> 0, _file_queue_wait_time |-> 0]
    /\ st_reported = [w \in Workers |-> FALSE]
    /\ st_dequeued = [w \in Workers |-> 0]
    /\ st_done = [w \in Workers |-> 0]
    /\ st_puts = [w \in Workers |-> 0]

IdleStatus == InitStatus

\* update_queue_status: the four assignments under the collector's lock
update_queue_status(db_queue_size, db_queue_wait, file_queue_size, file_queue_wait) ==
    [_db_queue_size |-> db_queue_size,
     _db_queue_wait_time |-> db_queue_wait,
     _file_queue_size |-> file_queue_size,
     _file_queue_wait_time |-> file_queue_wait]

\* get_queue_status (monitoring_collector.py, lines 249-266)
get_queue_status ==
    [db_queue |-> [size |-> queue_status._db_queue_size,
                   wait_time |-> queue_status._db_queue_wait_time],
     file_queue |-> [size |-> queue_status._file_queue_size,
                     wait_time |-> queue_status._file_queue_wait_time]]

\* put_nowait on a queue that is not full (lines 159, 204 and 274)
Status_Put(w) ==
    /\ st_puts[w] < MaxStatusItems
    /\ st_queue[w] < queue_maxsize
    /\ st_queue' = [st_queue EXCEPT ![w] = @ + 1]
    /\ st_unfinished' = [st_unfinished EXCEPT ![w] = @ + 1]
    /\ st_puts' = [st_puts EXCEPT ![w] = @ + 1]
    /\ UNCHANGED <<st_pc, st_wait, queue_status, st_reported, st_dequeued,
                   st_done>>
    /\ UNCHANGED notStatusVars

\* the report of run() at the end of an iteration (lines 429-439): both
\* waits are passed as 0.0
Status_RunReport ==
    /\ queue_status' = update_queue_status(st_queue.db, 0, st_queue.file, 0)
    /\ queue_status' # queue_status
    /\ UNCHANGED <<st_queue, st_unfinished, st_pc, st_wait, st_reported,
                   st_dequeued, st_done, st_puts>>
    /\ UNCHANGED notStatusVars

\* `task = self.<queue>.get(timeout=1)` returning an item, and
\* `queue_wait_time = time.time() - task_start_time` (lines 82-86 and
\* 119-123)
Worker_Get(w) ==
    /\ st_pc[w] = "get"
    /\ st_queue[w] > 0
    /\ st_queue' = [st_queue EXCEPT ![w] = @ - 1]
    /\ \E waited \in 0..MaxWait : st_wait' = [st_wait EXCEPT ![w] = waited]
    /\ st_pc' = [st_pc EXCEPT ![w] = "work"]
    /\ st_reported' = [st_reported EXCEPT ![w] = FALSE]
    /\ st_dequeued' = [st_dequeued EXCEPT ![w] = @ + 1]
    /\ UNCHANGED <<st_unfinished, queue_status, st_done, st_puts>>
    /\ UNCHANGED notStatusVars

\* the same call raising queue.Empty after its timeout
Worker_Timeout(w) ==
    /\ st_pc[w] = "get"
    /\ st_queue[w] = 0
    /\ st_pc' = [st_pc EXCEPT ![w] = "empty"]
    /\ UNCHANGED <<st_queue, st_unfinished, st_wait, queue_status,
                   st_reported, st_dequeued, st_done, st_puts>>
    /\ UNCHANGED notStatusVars

\* `except queue.Empty:` (lines 101-110 and 140-149): a report with both
\* waits 0.0, then `continue`
Worker_Empty(w) ==
    /\ st_pc[w] = "empty"
    /\ queue_status' = update_queue_status(st_queue.db, 0, st_queue.file, 0)
    /\ st_pc' = [st_pc EXCEPT ![w] = "get"]
    /\ UNCHANGED <<st_queue, st_unfinished, st_wait, st_reported,
                   st_dequeued, st_done, st_puts>>
    /\ UNCHANGED notStatusVars

\* the work on the item (lines 87-89 and 124-128): save_frame_to_database,
\* or cleanup_results_folder and cv2.imwrite; it returns or raises
Worker_Work(w) ==
    /\ st_pc[w] = "work"
    /\ \E raises \in BOOLEAN :
          st_pc' = [st_pc EXCEPT ![w] = IF raises THEN "except" ELSE "report"]
    /\ UNCHANGED <<st_queue, st_unfinished, st_wait, queue_status,
                   st_reported, st_dequeued, st_done, st_puts>>
    /\ UNCHANGED notStatusVars

\* the report after the work (lines 92-98 and 131-137): the worker passes
\* its own wait and 0.0 for the other queue
Worker_Report(w) ==
    /\ st_pc[w] = "report"
    /\ queue_status' =
          update_queue_status(st_queue.db,
                              IF w = "db" THEN st_wait.db ELSE 0,
                              st_queue.file,
                              IF w = "file" THEN st_wait.file ELSE 0)
    /\ st_reported' = [st_reported EXCEPT ![w] = TRUE]
    /\ st_pc' = [st_pc EXCEPT ![w] = "task_done"]
    /\ UNCHANGED <<st_queue, st_unfinished, st_wait, st_dequeued, st_done,
                   st_puts>>
    /\ UNCHANGED notStatusVars

\* `task_done()` at the end of the try block (lines 100 and 139); its
\* ValueError goes to the handler
Worker_TaskDone(w) ==
    /\ st_pc[w] = "task_done"
    /\ IF task_done_raises(st_unfinished[w])
       THEN /\ st_pc' = [st_pc EXCEPT ![w] = "except"]
            /\ UNCHANGED <<st_unfinished, st_done, st_wait>>
       ELSE /\ st_unfinished' = [st_unfinished EXCEPT ![w] = @ - 1]
            /\ st_done' = [st_done EXCEPT ![w] = @ + 1]
            /\ st_wait' = [st_wait EXCEPT ![w] = 0]
            /\ st_pc' = [st_pc EXCEPT ![w] = "get"]
    /\ UNCHANGED <<st_queue, queue_status, st_reported, st_dequeued,
                   st_puts>>
    /\ UNCHANGED notStatusVars

\* a handler that prints the error and goes on
Worker_Except_NoTaskDone(w) ==
    /\ st_pc[w] = "except"
    /\ st_wait' = [st_wait EXCEPT ![w] = 0]
    /\ st_pc' = [st_pc EXCEPT ![w] = "get"]
    /\ UNCHANGED <<st_queue, st_unfinished, st_done, queue_status,
                   st_reported, st_dequeued, st_puts>>
    /\ UNCHANGED notStatusVars

\* `except Exception as e:` (lines 111-113 and 150-152): the error is
\* printed and task_done() is called; its ValueError ends the thread
Worker_Except(w) ==
    /\ st_pc[w] = "except"
    /\ IF task_done_raises(st_unfinished[w])
       THEN /\ st_pc' = [st_pc EXCEPT ![w] = "dead"]
            /\ UNCHANGED <<st_unfinished, st_done, st_wait>>
       ELSE /\ st_unfinished' = [st_unfinished EXCEPT ![w] = @ - 1]
            /\ st_done' = [st_done EXCEPT ![w] = @ + 1]
            /\ st_wait' = [st_wait EXCEPT ![w] = 0]
            /\ st_pc' = [st_pc EXCEPT ![w] = "get"]
    /\ UNCHANGED <<st_queue, queue_status, st_reported, st_dequeued,
                   st_puts>>
    /\ UNCHANGED notStatusVars

NextStatus ==
    \/ \E w \in Workers : Status_Put(w)
    \/ Status_RunReport
    \/ \E w \in Workers : Worker_Get(w)
    \/ \E w \in Workers : Worker_Timeout(w)
    \/ \E w \in Workers : Worker_Empty(w)
    \/ \E w \in Workers : Worker_Work(w)
    \/ \E w \in Workers : Worker_Report(w)
    \/ \E w \in Workers : Worker_TaskDone(w)
    \/ \E w \in Workers : Worker_Except(w)

(***************************************************************************)
(* The locks of the shared resources.  A call is the sequence of the       *)
(* acquisitions and releases it makes, in the order of the code; a         *)
(* threading.Lock is not reentrant, so that an acquisition waits as long   *)
(* as the lock is held, by whomever.                                       *)
(***************************************************************************)
Locks == {"frame_slot", "db_queue", "file_queue", "collector"}
Activities == {"reader", "client", "run", "db_worker", "file_worker",
               "observer"}

Acq(l) == [op |-> "acq", lock |-> l]
Rel(l) == [op |-> "rel", lock |-> l]

\* `with lock:` around code that takes no other lock
Section(l) == <<Acq(l), Rel(l)>>

\* the slot update of _read_loop (rtsp_stream_reader.py, lines 146-154),
\* get_latest_frame (262-271), get_frame_age (279-282) and get_statistics
\* (310-314)
Call_slot == Section("frame_slot")

\* put_nowait, get, qsize and task_done of queue.Queue: each takes the mutex
\* of its queue and gives it back before it returns
Call_queue(q) == Section(q)

\* a method of MonitoringCollector whose body is one `with self._lock:`
\* (update_*, add_detection, set_streaming_status,
\* increment_frames_skipped, and every getter but get_all_data)
Call_collector == Section("collector")

\* `self.monitoring_collector.update_queue_status(self.db_queue.qsize(),
\* ..., self.file_queue.qsize(), ...)` (stream_processor.py, lines 93-98,
\* 104-109, 132-137, 143-148 and 434-439): the arguments are evaluated
\* before the call
Call_report ==
    Call_queue("db_queue") \o Call_queue("file_queue") \o Call_collector

\* a get_all_data that holds the lock over its five getters
get_all_data_locked ==
    <<Acq("collector")>> \o Call_collector \o Call_collector
        \o Call_collector \o Call_collector \o Call_collector
        \o <<Rel("collector")>>

\* get_all_data (monitoring_collector.py, lines 292-305): get_status,
\* get_metrics, get_detections, get_queue_status and get_timing_breakdown
\* one after the other, without the lock being held in between
get_all_data ==
    Call_collector \o Call_collector \o Call_collector \o Call_collector
        \o Call_collector

\* the calls each activity makes
Calls(a) ==
    CASE a = "reader"      -> {Call_slot}
      [] a = "client"      -> {Call_slot}
      [] a = "run"         -> {Call_collector, Call_queue("db_queue"),
                               Call_queue("file_queue"), Call_report}
      [] a = "db_worker"   -> {Call_queue("db_queue"), Call_report}
      [] a = "file_worker" -> {Call_queue("file_queue"), Call_report}
      [] a = "observer"    -> {Call_collector, get_all_data}

InitLocks ==
    /\ lk_holder = [l \in Locks |-> "none"]
    /\ lk_todo = [a \in Activities |-> <<>>]

IdleLocks == InitLocks

\* an activity that is not inside a call makes one
Lock_Call(a) ==
    /\ lk_todo[a] = <<>>
    /\ \E call \in Calls(a) : lk_todo' = [lk_todo EXCEPT ![a] = call]
    /\ UNCHANGED lk_holder
    /\ UNCHANGED notLockVars

\* Lock.acquire(): it returns once nobody holds the lock
Lock_Acquire(a) ==
    /\ lk_todo[a] # <<>>
    /\ Head(lk_todo[a]).op = "acq"
    /\ lk_holder[Head(lk_todo[a]).lock] = "none"
    /\ lk_holder' = [lk_holder EXCEPT ![Head(lk_todo[a]).lock] = a]
    /\ lk_todo' = [lk_todo EXCEPT ![a] = Tail(@)]
    /\ UNCHANGED notLockVars

\* Lock.release() at the end of a with block
Lock_Release(a) ==
    /\ lk_todo[a] # <<>>
    /\ Head(lk_todo[a]).op = "rel"
    /\ lk_holder' = [lk_holder EXCEPT ![Head(lk_todo[a]).lock] = "none"]
    /\ lk_todo' = [lk_todo EXCEPT ![a] = Tail(@)]
    /\ UNCHANGED notLockVars

NextLocks ==
    \/ \E a \in Activities : Lock_Call(a)
    \/ \E a \in Activities : Lock_Acquire(a)
    \/ \E a \in Activities : Lock_Release(a)

(***************************************************************************)
(* get_all_data with writers running beside it.  Each method of the        *)
(* collector that is called runs under self._lock and is one step;         *)
(* get_all_data itself takes no lock.  Of the metrics only the three       *)
(* fields that the status has too are kept, and with them the number of    *)
(* processing times the averages were computed from.                       *)
(***************************************************************************)
MaxFramesSkipped == 1   \* frames counted as skipped

\* lines 54-58 of __init__
InitAllData ==
    /\ _frames_skipped = 0
    /\ _is_streaming = FALSE
    /\ ad_pc = "idle"
    /\ ad_status = <<>>
    /\ ad_metrics = <<>>
    /\ all_data = <<>>

IdleAllData == InitAllData

\* increment_frames_skipped (lines 178-185)
IncrementFramesSkipped ==
    /\ _frames_skipped < MaxFramesSkipped
    /\ _frames_skipped' = _frames_skipped + 1
    /\ UNCHANGED <<_is_streaming, ad_pc, ad_status, ad_metrics, all_data>>
    /\ UNCHANGED notAllDataVars

\* set_streaming_status (lines 169-176)
SetStreamingStatus ==
    /\ \E is_streaming \in BOOLEAN : _is_streaming' = is_streaming
    /\ UNCHANGED <<_frames_skipped, ad_pc, ad_status, ad_metrics, all_data>>
    /\ UNCHANGED notAllDataVars

\* get_status (lines 276-290)
get_status ==
    [is_streaming |-> _is_streaming,
     total_frames_processed |-> mc_total_frames_processed,
     frames_skipped |-> _frames_skipped]

\* get_metrics (lines 196-235)
get_metrics ==
    [times |-> Len(_processing_times),
     total_frames_processed |-> mc_total_frames_processed,
     frames_skipped |-> _frames_skipped,
     is_streaming |-> _is_streaming]

\* get_all_data is called (line 292)
GetAllData_Call ==
    /\ ad_pc = "idle"
    /\ all_data = <<>>
    /\ ad_pc' = "status"
    /\ UNCHANGED <<_frames_skipped, _is_streaming, ad_status, ad_metrics,
                   all_data>>
    /\ UNCHANGED notAllDataVars

\* `'status': self.get_status(),` (line 299)
GetAllData_Status ==
    /\ ad_pc = "status"
    /\ ad_status' = get_status
    /\ ad_pc' = "metrics"
    /\ UNCHANGED <<_frames_skipped, _is_streaming, ad_metrics, all_data>>
    /\ UNCHANGED notAllDataVars

\* `'metrics': self.get_metrics(),` (line 300)
GetAllData_Metrics ==
    /\ ad_pc = "metrics"
    /\ ad_metrics' = get_metrics
    /\ ad_pc' = "rest"
    /\ UNCHANGED <<_frames_skipped, _is_streaming, ad_status, all_data>>
    /\ UNCHANGED notAllDataVars

\* the other three getters and the return (lines 301-305)
GetAllData_Return ==
    /\ ad_pc = "rest"
    /\ all_data' = [status |-> ad_status, metrics |-> ad_metrics]
    /\ ad_pc' = "idle"
    /\ UNCHANGED <<_frames_skipped, _is_streaming, ad_status, ad_metrics>>
    /\ UNCHANGED notAllDataVars

GetAllData ==
    \/ GetAllData_Call \/ GetAllData_Status \/ GetAllData_Metrics
    \/ GetAllData_Return

NextAllData ==
    \/ UpdateProcessingTime
    \/ IncrementFramesSkipped
    \/ SetStreamingStatus
    \/ GetAllData

IdleProc == InitProc /\ monitoring_enabled

IdleReader == InitReader /\ mode = "continuous"

InitSpec        == InitProc /\ IdleReader /\ IdleOv /\ IdleCleanup /\ IdleCollector /\ IdleBuffers /\ IdleMqtt /\ IdleSkip /\ IdleSnapshot /\ IdleMode /\ IdleBackoff /\ IdleRetry /\ IdleStatus /\ IdleLocks /\ IdleAllData
InitSpecReader  == InitReader /\ IdleProc /\ IdleOv /\ IdleCleanup /\ IdleCollector /\ IdleBuffers /\ IdleMqtt /\ IdleSkip /\ IdleSnapshot /\ IdleMode /\ IdleBackoff /\ IdleRetry /\ IdleStatus /\ IdleLocks /\ IdleAllData
InitSpecOverlap == InitOv /\ IdleReader /\ IdleProc /\ IdleCleanup /\ IdleCollector /\ IdleBuffers /\ IdleMqtt /\ IdleSkip /\ IdleSnapshot /\ IdleMode /\ IdleBackoff /\ IdleRetry /\ IdleStatus /\ IdleLocks /\ IdleAllData
InitSpecCleanup == InitCleanup /\ IdleReader /\ IdleProc /\ IdleOv /\ IdleCollector /\ IdleBuffers /\ IdleMqtt /\ IdleSkip /\ IdleSnapshot /\ IdleMode /\ IdleBackoff /\ IdleRetry /\ IdleStatus /\ IdleLocks /\ IdleAllData
InitSpecCollector == InitCollector /\ IdleReader /\ IdleProc /\ IdleOv /\ IdleCleanup /\ IdleBuffers /\ IdleMqtt /\ IdleSkip /\ IdleSnapshot /\ IdleMode /\ IdleBackoff /\ IdleRetry /\ IdleStatus /\ IdleLocks /\ IdleAllData
InitSpecAllData == InitAllData /\ IdleReader /\ IdleProc /\ IdleOv /\ IdleCleanup /\ IdleBuffers /\ IdleMqtt /\ IdleSkip /\ IdleSnapshot /\ IdleMode /\ IdleBackoff /\ IdleRetry /\ IdleStatus /\ IdleLocks /\ InitCollector
InitSpecLocks == InitLocks /\ IdleReader /\ IdleProc /\ IdleOv /\ IdleCleanup /\ IdleBuffers /\ IdleMqtt /\ IdleSkip /\ IdleSnapshot /\ IdleMode /\ IdleBackoff /\ IdleRetry /\ IdleStatus /\ IdleCollector /\ IdleAllData
InitSpecStatus == InitStatus /\ IdleReader /\ IdleProc /\ IdleOv /\ IdleCleanup /\ IdleBuffers /\ IdleMqtt /\ IdleSkip /\ IdleSnapshot /\ IdleMode /\ IdleBackoff /\ IdleRetry /\ IdleCollector /\ IdleLocks /\ IdleAllData
InitSpecRetry == InitRetry /\ IdleReader /\ IdleProc /\ IdleOv /\ IdleCleanup /\ IdleBuffers /\ IdleMqtt /\ IdleSkip /\ IdleSnapshot /\ IdleMode /\ IdleBackoff /\ IdleCollector /\ IdleStatus /\ IdleLocks /\ IdleAllData
InitSpecBackoff == InitBackoff /\ IdleReader /\ IdleProc /\ IdleOv /\ IdleCleanup /\ IdleBuffers /\ IdleMqtt /\ IdleSkip /\ IdleSnapshot /\ IdleMode /\ IdleCollector /\ IdleRetry /\ IdleStatus /\ IdleLocks /\ IdleAllData
InitSpecMode == InitMode /\ InitReader /\ IdleProc /\ IdleOv /\ IdleCleanup /\ IdleBuffers /\ IdleMqtt /\ IdleSkip /\ IdleSnapshot /\ IdleCollector /\ IdleBackoff /\ IdleRetry /\ IdleStatus /\ IdleLocks /\ IdleAllData
InitSpecSnapshot == InitSnapshot /\ IdleReader /\ IdleProc /\ IdleOv /\ IdleCleanup /\ IdleBuffers /\ IdleMqtt /\ IdleSkip /\ IdleCollector /\ IdleMode /\ IdleBackoff /\ IdleRetry /\ IdleStatus /\ IdleLocks /\ IdleAllData
InitSpecSkip == InitSkip /\ IdleReader /\ IdleProc /\ IdleOv /\ IdleCleanup /\ IdleBuffers /\ IdleMqtt /\ IdleCollector /\ IdleSnapshot /\ IdleMode /\ IdleBackoff /\ IdleRetry /\ IdleStatus /\ IdleLocks /\ IdleAllData
InitSpecMqtt == InitMqtt /\ IdleReader /\ IdleProc /\ IdleOv /\ IdleCleanup /\ IdleBuffers /\ IdleCollector /\ IdleSkip /\ IdleSnapshot /\ IdleMode /\ IdleBackoff /\ IdleRetry /\ IdleStatus /\ IdleLocks /\ IdleAllData
InitSpecBuffers == InitBuffers /\ IdleReader /\ IdleProc /\ IdleOv /\ IdleCleanup /\ IdleCollector /\ IdleMqtt /\ IdleSkip /\ IdleSnapshot /\ IdleMode /\ IdleBackoff /\ IdleRetry /\ IdleStatus /\ IdleLocks /\ IdleAllData

Next ==
    \/ Run_Connect \/ Run_Read \/ Run_SaveFrameIfNeeded \/ Run_Detect
    \/ ProcessDetections_Filter \/ ProcessDetections_Publish
    \/ ProcessDetections_SaveFile \/ ProcessDetections_SaveDb
    \/ Run_Finish
    \/ DbWorker_Task \/ FileWorker_Task

Spec == InitSpec /\ [][Next]_vars

SpecReader == InitSpecReader /\ [][NextReader]_vars

\* the acquisition thread and the callers of get_latest_frame, without
\* stop()
NextSlot == ReadLoop \/ GetLatestFrame \/ Tick

SpecSlot == InitSpecReader /\ [][NextSlot]_vars

\* the acquisition thread, the callers of get_fresh_frame and stop(),
\* which are the ones that open and release transport handles
NextHandles == ReadLoop \/ GetFreshFrame \/ Stop

SpecHandles == InitSpecReader /\ [][NextHandles]_vars

SpecOverlap == InitSpecOverlap /\ [][NextOverlap]_vars

SpecCleanup == InitSpecCleanup /\ [][NextCleanup]_vars

SpecCollector == InitSpecCollector /\ [][NextCollector]_vars

SpecAllData == InitSpecAllData /\ [][NextAllData]_vars

SpecLocks == InitSpecLocks /\ [][NextLocks]_vars

SpecStatus == InitSpecStatus /\ [][NextStatus]_vars

SpecRetry == InitSpecRetry /\ [][NextRetry]_vars

SpecBackoff == InitSpecBackoff /\ [][NextBackoff]_vars

SpecMode == InitSpecMode /\ [][NextMode]_vars

SpecSnapshot == InitSpecSnapshot /\ [][NextSnapshot]_vars

SpecSkip == InitSpecSkip /\ [][NextSkip]_vars

SpecMqtt == InitSpecMqtt /\ [][NextMqtt]_vars

SpecBuffers == InitSpecBuffers /\ [][NextBuffers]_vars

(***************************************************************************)
(* Vocabulary of the claims about one iteration of run().  `events` lists  *)
(* the effects of the current iteration in the order they took place.      *)
(***************************************************************************)
Alert(i)     == [kind |-> "alert", det |-> i]
FileEvent(i) == [kind |-> "file", det |-> i]
DbEvent(i)   == [kind |-> "db", det |-> i]
Snapshot     == [kind |-> "snapshot", det |-> 0]
Occurrences(e) == Cardinality({k \in DOMAIN events : events[k] = e})
IsEnqueue(e) == e.kind \in {"file", "db", "snapshot"}

\* the filter is meant to drop this detection
Suppressed(d) ==
    \/ d.confidence <= confidence_threshold
    \/ BoxMeetsZone(d.bbox, ignore_zone)

\* the step is taken by run() itself (the workers leave both alone)
RunStep == <<run_pc, det_idx>>' # <<run_pc, det_idx>>

(***************************************************************************)
(* C3 as stated: within one iteration no FileWrite or DatabaseWrite        *)
(* enqueue takes place before an alert publish of the same iteration.      *)
(***************************************************************************)
C3_AlertBeforeEveryEnqueue ==
    \A i \in DOMAIN events : \A j \in DOMAIN events :
        (i < j /\ events[j].kind = "alert") => ~ IsEnqueue(events[i])

(***************************************************************************)
(* C3 amended: for every surviving detection, its alert publish precedes   *)
(* the FileWrite and DatabaseWrite enqueues of that same detection; the    *)
(* periodic snapshot and the enqueues of earlier detections of the batch   *)
(* may precede an alert.                                                   *)
(***************************************************************************)
C3_AlertBeforeOwnEnqueues ==
    \A j \in DOMAIN events :
        events[j].kind \in {"file", "db"} =>
            \E i \in DOMAIN events : i < j /\ events[i] = Alert(events[j].det)

\* two detections of one batch survived: the enqueues of the first came
\* before the alert of the second, each after its own alert
C3_Witness ==
    /\ run_pc = "finish"
    /\ surviving = {1, 2}
    /\ events \in {<<Alert(1), FileEvent(1), DbEvent(1),
                     Alert(2), FileEvent(2), DbEvent(2)>>,
                   <<Snapshot, Alert(1), FileEvent(1), DbEvent(1),
                     Alert(2), FileEvent(2), DbEvent(2)>>}

(***************************************************************************)
(* C4 as stated: an iteration with exactly one surviving detection and     *)
(* free capacity in both queues, the first iteration included, publishes   *)
(* one alert and then enqueues exactly one FileWrite and exactly one       *)
(* DatabaseWrite, in this order, and nothing else.                         *)
(***************************************************************************)
C4_ExactlyAlertFileDb ==
    (run_pc = "finish" /\ Cardinality(surviving) = 1 /\ ~ found_full) =>
        \E d \in surviving : events = <<Alert(d), FileEvent(d), DbEvent(d)>>

(***************************************************************************)
(* C4 amended: such an iteration publishes one alert and then enqueues one *)
(* FileWrite and one DatabaseWrite for the detection, in this order; the   *)
(* only other effect is the DatabaseWrite of the periodic snapshot, which  *)
(* is enqueued before the alert when the snapshot is due, as it always is  *)
(* in the first iteration after start-up.                                  *)
(***************************************************************************)
C4_AlertFileDbAfterSnapshot ==
    (run_pc = "finish" /\ Cardinality(surviving) = 1 /\ ~ found_full) =>
        \E d \in surviving :
            /\ events \in {<<Alert(d), FileEvent(d), DbEvent(d)>>,
                           <<Snapshot, Alert(d), FileEvent(d), DbEvent(d)>>}
            /\ _total_frames_processed = 0 => Head(events) = Snapshot

\* the first iteration after start-up with one surviving detection
C4_Witness ==
    /\ run_pc = "finish"
    /\ _total_frames_processed = 0
    /\ surviving = {1}
    /\ batch_size = 1
    /\ ~ found_full
    /\ events = <<Snapshot, Alert(1), FileEvent(1), DbEvent(1)>>
    /\ Len(file_queue) = 1
    /\ Len(db_queue) = 2

(***************************************************************************)
(* C5: a detection with confidence <= threshold or with a box that meets   *)
(* the ignore zone causes no alert and no enqueue and leaves the detection *)
(* history of the collector unchanged.                                     *)
(***************************************************************************)
C5_SuppressedHasNoEffect ==
    /\ [](\A k \in DOMAIN events :
              events[k].det > 0 => events[k].det \in surviving)
    /\ [][(run_pc = "filter" /\ Suppressed(Head(detections)) /\ RunStep) =>
              /\ run_pc' \in {"filter", "finish"}
              /\ events' = events
              /\ file_queue' = file_queue
              /\ db_queue' = db_queue
              /\ _detections_history' = _detections_history]_vars

\* a batch of two suppressed detections went through the filter while the
\* history held an earlier detection
C5_Witness ==
    /\ run_pc = "finish"
    /\ batch_size = 2
    /\ surviving = {}
    /\ events = <<>>
    /\ _detections_history # <<>>

(***************************************************************************)
(* C6: every surviving detection is published exactly once, whatever the   *)
(* fill of the two queues; no other detection is published.                *)
(***************************************************************************)
C6_AlertIndependentOfQueues ==
    \A i \in 1..batch_size :
        Occurrences(Alert(i)) =
            IF /\ i \in surviving
               /\ \/ run_pc = "finish"
                  \/ i < det_idx
                  \/ i = det_idx /\ run_pc \in {"save_file", "save_db"}
            THEN 1 ELSE 0

\* both enqueues of a detection were dropped at full queues and its alert
\* was published all the same
C6_Witness ==
    /\ run_pc = "finish"
    /\ surviving = {1, 2}
    /\ Len(file_queue) = queue_maxsize
    /\ Len(db_queue) = queue_maxsize
    /\ events \in {<<Alert(1), Alert(2)>>,
                   <<Alert(1), FileEvent(1), DbEvent(1), Alert(2)>>}

(***************************************************************************)
(* C7: each queue holds at most 10 items in every state, and an enqueue of *)
(* a FileWrite or DatabaseWrite at a full queue drops the item: the queue  *)
(* is unchanged and run() goes on with its next statement.                 *)
(***************************************************************************)
C7_EnqueueNeverBlocksOrRaises ==
    /\ [](Len(file_queue) <= 10 /\ Len(db_queue) <= 10)
    /\ [][(run_pc = "save_file" /\ Len(file_queue) = 10 /\ RunStep) =>
              (file_queue' = file_queue /\ run_pc' = "save_db")]_vars
    /\ [][(run_pc = "save_db" /\ Len(db_queue) = 10 /\ RunStep) =>
              (db_queue' = db_queue /\ run_pc' \in {"filter", "finish"})]_vars

\* the FileWrite of the current detection has just been dropped
C7_Witness ==
    /\ run_pc = "save_db"
    /\ found_full
    /\ Len(file_queue) = 10
    /\ FileEvent(det_idx) \notin {events[k] : k \in DOMAIN events}
    /\ Alert(det_idx) \in {events[k] : k \in DOMAIN events}

(***************************************************************************)
(* C8: a detection is processed only if its confidence is greater than the *)
(* threshold; a detection whose confidence equals the threshold is         *)
(* suppressed.                                                             *)
(***************************************************************************)
C8_StrictConfidenceFilter ==
    /\ [](run_pc \in {"publish", "save_file", "save_db"} =>
              Head(detections).confidence > confidence_threshold)
    /\ [](\A k \in DOMAIN _detections_history :
              _detections_history[k] > confidence_threshold)
    /\ [][(/\ run_pc = "filter"
           /\ Head(detections).confidence = confidence_threshold
           /\ RunStep) =>
              (run_pc' \in {"filter", "finish"} /\ events' = events)]_vars

\* the only detection of a later batch had exactly the threshold as its
\* confidence and was skipped
C8_Witness ==
    /\ run_pc = "finish"
    /\ skipped_equal
    /\ batch_size = 1
    /\ surviving = {}
    /\ events = <<>>
    /\ _total_frames_processed > 0

(***************************************************************************)
(* C9: the overlap test is true exactly when neither rectangle lies        *)
(* strictly to the left of, to the right of, above or below the other; it  *)
(* gives the same answer with its rectangles exchanged; rectangles that    *)
(* touch at an edge or a corner overlap; without a configured zone no      *)
(* detection is an ignore-zone hit.  Coordinates are compared in units of  *)
(* 1 / (ZoneDen * FrameW) and 1 / (ZoneDen * FrameH).                      *)
(***************************************************************************)
BoxLeftOfZone  == ov_bbox[3] * ZoneDen < ov_zone[1] * FrameW
BoxRightOfZone == ov_bbox[1] * ZoneDen > ov_zone[3] * FrameW
BoxAboveZone   == ov_bbox[4] * ZoneDen < ov_zone[2] * FrameH
BoxBelowZone   == ov_bbox[2] * ZoneDen > ov_zone[4] * FrameH
TouchAtCorner  ==
    /\ ov_bbox[3] * ZoneDen = ov_zone[1] * FrameW
    /\ ov_bbox[4] * ZoneDen = ov_zone[2] * FrameH

C9_OverlapTest ==
    ov_pc = "done" =>
        IF ov_zone = <<>>
        THEN ov_result = FALSE
        ELSE /\ ov_result = ~ (\/ BoxLeftOfZone \/ BoxRightOfZone
                               \/ BoxAboveZone \/ BoxBelowZone)
             /\ ov_result = BoxMeetsZone(ov_bbox, ov_zone)
             /\ ov_swapped = ov_result
             /\ TouchAtCorner => ov_result

\* a box and a zone, both of positive area, that share one corner point
C9_Witness ==
    /\ ov_pc = "done"
    /\ ov_zone # <<>>
    /\ TouchAtCorner
    /\ ov_bbox[1] < ov_bbox[3] /\ ov_bbox[2] < ov_bbox[4]
    /\ ov_zone[1] < ov_zone[3] /\ ov_zone[2] < ov_zone[4]
    /\ ov_result = TRUE
    /\ ov_swapped = TRUE

(***************************************************************************)
(* C10: an exception raised by the detector during an iteration is caught  *)
(* inside the loop and only skips the frame: run() never ends because of   *)
(* it.                                                                     *)
(***************************************************************************)
C10_LoopSurvivesException == run_pc # "crashed"

(***************************************************************************)
(* Stopping StreamProcessor.run.  run() polls no flag and installs no      *)
(* signal handler; the documented way to stop it is `docker stop` (line    *)
(* 450), a signal whose default disposition ends the process (SIGTERM) or  *)
(* raises KeyboardInterrupt in the main thread (SIGINT) at whatever        *)
(* statement run() is executing.                                           *)
(***************************************************************************)
Run_Interrupt ==
    /\ run_pc \notin {"crashed", "interrupted"}
    /\ run_pc' = "interrupted"
    /\ UNCHANGED <<configVars, last_frame_save_time, db_queue, file_queue,
                   _total_frames_processed, cap_isOpened, runLocals,
                   detections, det_idx, current_time, _detections_history,
                   batchVars, events, found_full, cap_opens>>
    /\ UNCHANGED notProcVars

NextStop == Next \/ Run_Interrupt

SpecStop == InitSpec /\ [][NextStop]_vars

(***************************************************************************)
(* C11: run() ends only on a stop signal, and then only between two        *)
(* iterations: the iteration in progress when the signal arrives is        *)
(* finished first.                                                         *)
(***************************************************************************)
C11_ExitsOnlyOnStopBetweenIterations ==
    [][(run_pc' # run_pc /\ run_pc' \in {"interrupted", "crashed"}) =>
          (run_pc' = "interrupted" /\ run_pc \in {"connect", "read"})]_vars

C13_StopEndsBackoffWait ==
    [][~ (read_pc = "sleep" /\ _stopped /\ read_pc' = "wake")]_vars

(***************************************************************************)
(* Shutdown of a continuous-mode reader: the acquisition thread and one    *)
(* caller of stop().  Every blocking call of the thread returns: the open  *)
(* and the read carry time-outs (lines 113-114) and time.sleep returns     *)
(* after its delay.  The thread is therefore scheduled fairly; no          *)
(* assumption is made on when stop() is called or how fast it proceeds.    *)
(***************************************************************************)
InitShutdown == IdleReader /\ IdleProc /\ IdleOv /\ IdleCleanup /\ IdleCollector /\ IdleBuffers /\ IdleMqtt /\ IdleSkip /\ IdleSnapshot /\ IdleMode /\ IdleBackoff /\ IdleRetry /\ IdleStatus /\ IdleLocks /\ IdleAllData

ThreadStep == ReadLoop \/ ReadLoop_OpenExhausted

NextShutdown == ThreadStep \/ Stop

SpecShutdown == InitShutdown /\ [][NextShutdown]_vars /\ WF_vars(ThreadStep)

C15_NeverConnected ==
    ~ open_succeeded =>
        /\ ~ _connected
        /\ _frame = <<>>
        /\ result = <<>>
        /\ (open_failed /\ read_pc \notin {"check_opened", "except"})
               => _last_error # ""

\* a client is reading the slot while the thread waits after a failed open
C15_Witness ==
    /\ open_failed /\ ~ open_succeeded
    /\ read_pc = "sleep" /\ _last_error = open_error_message
    /\ client_pc = "locked" /\ opens = 1

(***************************************************************************)
(* Callers of get_latest_frame() against the acquisition thread.  The      *)
(* statements inside a `with self._lock` block are plain computation and   *)
(* always complete, and a caller waiting for the lock gets it if the lock  *)
(* keeps becoming free.  Nothing is assumed about the steps of the thread  *)
(* that touch the transport or sleep: any of them may block for ever.      *)
(***************************************************************************)
InitClient == IdleReader /\ IdleProc /\ IdleOv /\ IdleCleanup /\ IdleCollector /\ IdleBuffers /\ IdleMqtt /\ IdleSkip /\ IdleSnapshot /\ IdleMode /\ IdleBackoff /\ IdleRetry /\ IdleStatus /\ IdleLocks /\ IdleAllData

SlotUpdateStep ==
    \/ ReadLoop_CountDropped \/ ReadLoop_WriteFrame
    \/ ReadLoop_WriteTimestamp \/ ReadLoop_WriteNumber \/ ReadLoop_Release

NextClient == ThreadStep \/ GetLatestFrame

FairClient ==
    /\ WF_vars(SlotUpdateStep)
    /\ SF_vars(GetLatestFrame_Acquire)
    /\ WF_vars(GetLatestFrame_ReadSlot \/ GetLatestFrame_Return)

SpecClient == InitClient /\ [][NextClient]_vars /\ FairClient

(***************************************************************************)
(* C16: the acquisition thread holds the slot lock only during the         *)
(* in-memory slot update, never while it opens the transport, grabs,       *)
(* decodes or sleeps; a get_latest_frame() call waits for nothing but that *)
(* lock and always completes, whatever the transport does.                 *)
(***************************************************************************)
C16_ClientNeverBlockedOnTransport ==
    /\ [](_lock = "acq" <=>
            read_pc \in {"w_dropped", "w_frame", "w_timestamp", "w_number",
                         "w_read"})
    /\ [](_lock = "client" <=> client_pc \in {"locked", "have_frame"})
    /\ (client_pc = "waiting" ~> client_pc = "idle")

\* a caller holds the lock and a stored frame while the thread sits in its
\* back-off wait after the connection broke
C16_Witness ==
    /\ client_pc = "have_frame" /\ _lock = "client"
    /\ read_pc = "sleep" /\ ~ _connected /\ opens = 1 /\ _frame # <<>>

(***************************************************************************)
(* Vocabulary of the claims about the reclamation pass.                    *)
(***************************************************************************)
usage_above(u) == u * ThresholdDen > ThresholdNum * DiskTotal

\* the pass of the current task has ended after listing some images
PassEnded == fw_pc = "write" /\ cl_images # <<>>

\* disk units in use once the first k listed images, those in `skip`
\* excepted, are gone
RECURSIVE UsedAfter(_, _)
UsedAfter(k, skip) ==
    IF k = 0 THEN cl_start
    ELSE UsedAfter(k - 1, skip) -
           (IF cl_images[k] \in skip THEN 0 ELSE Size(cl_images[k]))

\* the listed images are in ascending creation-time order and are the
\* .jpg files only
OldestFirst ==
    /\ \A i, j \in 1..Len(cl_images) :
          i < j => Ctime(cl_images[i]) <= Ctime(cl_images[j])
    /\ \A i \in 1..Len(cl_images) : is_jpg(cl_images[i])

ListedNotFailed(f) == f \notin cl_failed

(***************************************************************************)
(* C17 as stated: a pass that starts over the threshold deletes exactly    *)
(* the shortest oldest-first prefix of the image files whose removal       *)
(* brings the utilization below the threshold (all files if none does).    *)
(***************************************************************************)
C17_DeletesShortestOldestPrefix ==
    (PassEnded /\ usage_above(cl_start)) =>
        LET n  == Len(cl_images)
            ks == {k \in 1..n : usage_below(UsedAfter(k, {}))}
            kstar == IF ks = {} THEN n
                     ELSE CHOOSE k \in ks : \A m \in ks : k <= m
        IN  /\ OldestFirst
            /\ cl_deleted = SubSeq(cl_images, 1, kstar)

(***************************************************************************)
(* C17 amended: a pass that starts over the threshold calls os.remove on   *)
(* the image files in ascending creation-time order, rechecks the          *)
(* utilization after each removal that succeeded, and stops at the first   *)
(* recheck below the threshold or when no files remain; the deleted files  *)
(* are those of the attempted prefix whose removal did not fail.  A file   *)
(* whose removal fails is skipped, so a newer file can be deleted while an *)
(* older one stays.                                                        *)
(***************************************************************************)
C17_AttemptsShortestOldestPrefix ==
    (PassEnded /\ usage_above(cl_start)) =>
        /\ OldestFirst
        /\ cl_deleted =
             SelectSeq(SubSeq(cl_images, 1, cl_idx), ListedNotFailed)
        /\ \A k \in 1..(cl_idx - 1) :
              \/ cl_images[k] \in cl_failed
              \/ ~ usage_below(UsedAfter(k, cl_failed))
        /\ \/ cl_idx = Len(cl_images)
           \/ /\ cl_images[cl_idx] \notin cl_failed
              /\ usage_below(UsedAfter(cl_idx, cl_failed))

\* the two oldest of three images were deleted, in an order that differs
\* from the directory order, and the third was kept
C17_Witness ==
    /\ PassEnded /\ usage_above(cl_start)
    /\ Len(cl_images) = 3 /\ Len(cl_deleted) = 2 /\ cl_failed = {}
    /\ cl_deleted[1] > cl_deleted[2]
    /\ usage_below(used)

(***************************************************************************)
(* C18: the file worker runs a reclamation pass before every file write,   *)
(* and a pass deletes no file unless the storage utilization it found      *)
(* exceeds the configured threshold.                                       *)
(***************************************************************************)
C18_PassBeforeWriteDeletesOnlyOverThreshold ==
    /\ fw_pc = "write" => cl_checked
    /\ cl_deleted # <<>> => usage_above(cl_start)

(***************************************************************************)
(* Vocabulary of the claims about the collector: what the read accessors   *)
(* would return now, with every reference followed.                        *)
(***************************************************************************)
RecordValue(ref) ==
    [confidence |-> dicts[ref].confidence, bbox |-> lists[dicts[ref].bbox]]

CollectorView ==
    <<[i \in DOMAIN mc_detections_history |->
          RecordValue(mc_detections_history[i])],
      _timing_breakdown, _processing_times, _fps_history,
      _frame_age_history, _frame_age>>

(***************************************************************************)
(* C19: every read accessor returns a copy: whatever an observer does to   *)
(* a value it was given (the list of get_detections(), the detection       *)
(* records and bbox lists in it, the dict of get_timing_breakdown()), the  *)
(* state of the collector and the results of later reads stay as they      *)
(* were.                                                                   *)
(***************************************************************************)
C19_ReadsReturnCopies ==
    [][ObserverMutates => CollectorView' = CollectorView]_vars

\* the last min(n, max_history) entries of everything that arrived
LastArrived(h) ==
    LET a == arrived[h]
        n == IF Len(a) < self_max_history THEN Len(a) ELSE self_max_history
    IN  SubSeq(a, Len(a) - n + 1, Len(a))

(***************************************************************************)
(* C20: each history of the collector (processing times, fps values,       *)
(* frame ages, detections) holds at most max_history entries, and they are *)
(* the most recent arrivals in arrival order: an append to a full history  *)
(* evicts the oldest entry and nothing else.                               *)
(***************************************************************************)
C20_HistoriesAreRingBuffers ==
    /\ _processing_times = LastArrived("processing_times")
    /\ _fps_history = LastArrived("fps")
    /\ _frame_age_history = LastArrived("frame_age")
    /\ mc_detections_history = LastArrived("detections")
    /\ Len(_processing_times) <= self_max_history
    /\ Len(_fps_history) <= self_max_history
    /\ Len(_frame_age_history) <= self_max_history
    /\ Len(mc_detections_history) <= self_max_history

\* three detections arrived at a collector that keeps two: the first is
\* gone and the other two are in arrival order
C20_Witness ==
    /\ self_max_history = 2
    /\ Len(arrived["detections"]) = 3
    /\ mc_detections_history = <<2, 3>>

(***************************************************************************)
(* Claims about the frame buffers and the background workers               *)
(***************************************************************************)
\* the buffer references of the items that are on the two queues
QueuedBuffers == bf_db_queue \o bf_file_queue

\* C21: every item on the file queue or the database queue, a detection item
\* or the periodic snapshot, has a frame buffer of its own: no two queued
\* items hold the same buffer, and none holds the buffer of the frame or of
\* the annotated frame that the processing loop holds.
C21_QueuedItemsOwnTheirBuffer ==
    /\ \A i, j \in 1..Len(QueuedBuffers) :
          i # j => QueuedBuffers[i] # QueuedBuffers[j]
    /\ \A i \in 1..Len(QueuedBuffers) :
          /\ QueuedBuffers[i] \in 1..Len(bf_heap)
          /\ QueuedBuffers[i] # bf_frame
          /\ QueuedBuffers[i] # bf_annotated

\* the snapshot and the database item of a detection of the same frame are
\* queued, the file item too, and the loop still holds both its frames
C21_Witness ==
    /\ Len(bf_db_queue) >= 2
    /\ Len(bf_file_queue) >= 1
    /\ bf_frame # None
    /\ bf_annotated # None
    /\ bf_heap[bf_db_queue[1]].picture = bf_heap[bf_db_queue[2]].picture

\* the references a worker dequeued before the one it holds now
Processed(got, pc) ==
    IF pc \in {"get", "dead"} THEN got ELSE SubSeq(got, 1, Len(got) - 1)

C23_PublishReturnsAfterAtMostOneAttempt ==
    /\ mq_ending # "raised"
    /\ mq_attempts <= 1
    /\ mq_ending = "returned" =>
          mq_attempts = (IF mq_case = "dumps raises" THEN 0 ELSE 1)

\* a call made while disconnected, whose publish raised, has returned
C23_Witness ==
    /\ mq_ending = "returned"
    /\ mq_case = "raises"
    /\ mq_printed = "publish error"
    /\ ~ mq_connected
    /\ mq_attempts = 1
    /\ mq_calls = 2

(***************************************************************************)
(* Claims about the dynamic frame skipping                                 *)
(***************************************************************************)
\* the history of n iterations that each took d ticks
ConstantHistory(n, d) == [i \in 1..n |-> d]

\* floor(a / b) for b > 0
Floor(a, b) == IF a >= 0 THEN a \div b ELSE -(((-a) + b - 1) \div b)

\* the skip count the claim gives for a history whose mean is s / n, with
\* T = max_processing_time
ClaimedSkip(s, n) ==
    IF s <= max_processing_time * n THEN 3
    ELSE Min(Floor(s, n * max_processing_time) + 2, 10)

\* C24: with T = 1 / target_fps and avg the mean of the stored durations (0
\* for an empty history), the skip count of an iteration is 3 when avg <= T
\* and min(floor(avg / T) + 2, 10) when avg > T; for iterations of constant
\* duration L > T the skip count is non-decreasing in L and is 10 for every
\* L >= 8 T.
C24_SkipCountFormula ==
    /\ sk_pc = "process" =>
          max_frames_to_skip =
              ClaimedSkip(sum(processing_times),
                          IF processing_times = <<>> THEN 1
                          ELSE Len(processing_times))
    /\ LET n == Len(processing_times)
       IN  (n > 0 /\ sk_latency > max_processing_time) =>
              /\ frames_to_skip(ConstantHistory(n, sk_latency))
                     <= frames_to_skip(ConstantHistory(n, sk_latency + 1))
              /\ sk_latency >= 8 * max_processing_time =>
                     frames_to_skip(ConstantHistory(n, sk_latency)) = 10

\* the history is full of durations well over the budget, the oldest one has
\* left it, and the skip count computed from it is between 3 and the cap
C24_Witness ==
    /\ sk_pc = "process"
    /\ Len(processing_times) = max_processing_times
    /\ sum(processing_times) > 3 * max_processing_time * max_processing_times
    /\ processing_times[1] # processing_times[max_processing_times]
    /\ max_frames_to_skip \in 5..9

(***************************************************************************)
(* Claims about the periodic snapshot                                      *)
(***************************************************************************)
\* C25: independently of detections, whenever the interval of one hour has
\* elapsed since the last periodic snapshot, the iteration enqueues exactly
\* one DatabaseWrite item that carries the raw, non-annotated frame, and any
\* two periodic-snapshot enqueues are at least one interval apart.  An
\* iteration in which the copy of the frame raises is left aside.
C25_DueSnapshotIsEnqueued ==
    /\ sn_due_not_enqueued # "queue full"
    /\ \A i \in 1..Len(sn_db_queue) :
          sn_db_queue[i].confidence = 0 => ~ sn_db_queue[i].annotated
    /\ \A i, j \in 1..Len(sn_enqueued_at) :
          i < j => sn_enqueued_at[j] - sn_enqueued_at[i]
                       >= frame_save_interval

(***************************************************************************)
(* Claims about the mode checks of the reader                              *)
(***************************************************************************)
\* C26: a mode-specific read called in the wrong mode is a hard error
\* without side effect: get_latest_frame() on a reconnect_per_frame reader
\* and get_fresh_frame() on a continuous reader never get past their mode
\* check, and the step in which either raises leaves the frame slot,
\* frame_number, frames_read and last_error as they were.
C26_WrongModeRaisesWithoutEffect ==
    /\ [](/\ mode = "reconnect_per_frame" => client_pc = "idle"
          /\ mode = "continuous" => fresh_pc = "idle")
    /\ [][raised' # raised =>
            UNCHANGED <<_frame, _frame_timestamp, _frame_number,
                        _frames_read, _last_error>>]_vars

\* get_fresh_frame() has raised on a continuous reader whose slot holds a
\* frame
C26_Witness ==
    /\ mode = "continuous"
    /\ raised = <<"get_fresh_frame">>
    /\ _frame # <<>>
    /\ _frame_number > 0

\* get_latest_frame() has raised on a reconnect_per_frame reader that has
\* read a frame
C26_WitnessLatest ==
    /\ mode = "reconnect_per_frame"
    /\ raised = <<"get_latest_frame">>
    /\ _frames_read > 0

(***************************************************************************)
(* Claims about the reconnection backoff                                   *)
(***************************************************************************)
RECURSIVE Pow(_, _)
Pow(b, e) == IF e = 0 THEN 1 ELSE b * Pow(b, e - 1)

\* C27: retry_delay starts at 2, is multiplied by 1.5 and capped at 30 after
\* each failed open or exception and is 2 again after every successful
\* open; so 2 <= retry_delay <= 30 at all times, and the wait before the
\* retry that follows the k-th failure in a row is min(2 * 1.5^(k-1), 30).
\* The last equation is checked multiplied by 2^(k-1).
C27_BackoffSchedule ==
    /\ 2 * DelayUnit <= bk_retry_delay
    /\ bk_retry_delay <= 30 * DelayUnit
    /\ bk_pc = "read" => bk_retry_delay = 2 * DelayUnit
    /\ bk_waited # <<>> =>
          LET k == bk_waited[1]
              waited == bk_waited[2]
          IN  /\ k >= 1
              /\ waited * Pow(2, k - 1) =
                    Min(2 * DelayUnit * Pow(3, k - 1),
                        30 * DelayUnit * Pow(2, k - 1))

\* the eighth failure in a row, the first one whose wait is cut by the cap,
\* was followed by a wait of 30
C27_Witness ==
    /\ bk_waited = <<MaxConsecutiveFailures, max_retry_delay>>
    /\ bk_retry_delay = max_retry_delay
    /\ bk_pc = "loop"

(***************************************************************************)
(* Claims about the failure limit of a connection                          *)
(***************************************************************************)
\* the positions of _read_loop inside `while ... self._cap.isOpened():`
InnerLoop == {"inner", "grab", "retrieve", "lock", "w_dropped", "w_frame",
              "w_timestamp", "w_number", "w_read"}

\* C28: while connected, the reader gives the connection up once 10 reads in
\* a row have failed, grab failures and decode failures counted by the same
\* counter; every decode that succeeded sets the count to 0; and no read is
\* made on a connection whose count has reached 10: the step that takes the
\* count to 10 leaves the inner loop for the clean-up, and the thread is
\* never inside the inner loop with a count of 10.
C28_TenFailuresEndConnection ==
    /\ [](/\ consecutive_failures <= max_failures
          /\ consecutive_failures >= max_failures => read_pc \notin InnerLoop)
    /\ [][/\ consecutive_failures' # consecutive_failures =>
                \/ consecutive_failures' = 0
                \/ /\ consecutive_failures' = consecutive_failures + 1
                   /\ read_pc \in {"grab", "retrieve"}
          /\ (read_pc = "w_read" /\ read_pc' # "w_read") =>
                consecutive_failures' = 0
          /\ (consecutive_failures' = max_failures
                /\ consecutive_failures # max_failures) =>
                read_pc' = "cleanup"]_vars

\* after a frame had been stored, ten reads in a row failed and the thread
\* has released the connection and is about to open the next one
C28_Witness ==
    /\ consecutive_failures = max_failures
    /\ _frames_read >= 1
    /\ read_pc = "open"
    /\ ~ _connected
    /\ _cap = None
    /\ isOpened = {}

(***************************************************************************)
(* Claims about the frames_dropped counter                                 *)
(***************************************************************************)
\* the frame in the slot was handed out by get_latest_frame() at least once
SlotWasReturned == \E i \in 1..Len(returned) : returned[i] = _frame_number

\* C29: frames_dropped is incremented by a slot write exactly when the frame
\* being replaced had never been returned by get_latest_frame(); a frame that
\* was read before it is overwritten is not counted as dropped.
C29_DroppedCountsUnreadFramesOnly ==
    [][/\ _frames_dropped' # _frames_dropped =>
            /\ _frames_dropped' = _frames_dropped + 1
            /\ read_pc = "w_dropped"
            /\ _frame # <<>>
            /\ ~ SlotWasReturned
       /\ (read_pc = "w_dropped" /\ read_pc' # "w_dropped"
            /\ _frame # <<>> /\ ~ SlotWasReturned) =>
            _frames_dropped' = _frames_dropped + 1]_vars

(***************************************************************************)
(* Claims about the connection state of the continuous reader              *)
(***************************************************************************)
\* is_connected() turns true only in the step that found the capture it had
\* just opened to be open
ConnectedOnlyAfterOpen ==
    [][(~ _connected /\ _connected') =>
            /\ read_pc = "check_opened"
            /\ _cap # None
            /\ _cap \in isOpened
            /\ read_pc' = "inner"]_vars

\* while the thread is inside its inner loop and is_connected() is true the
\* reader holds an open capture
ConnectedHoldsOpenHandle ==
    [](_connected /\ read_pc \in InnerLoop => (_cap # None /\ _cap \in isOpened))

\* outside the inner loop and its clean-up is_connected() is false
DisconnectedOutsideLoop ==
    [](read_pc \in {"loop", "open", "check_opened", "sleep", "wake", "done"}
          => ~ _connected)

\* C30: the connection state only moves Disconnected -> Connecting ->
\* Streaming -> Disconnected: is_connected() becomes true only after a
\* successful open, is true only while the reader holds an open transport
\* handle (also when stop() runs concurrently), and is false after every
\* path that leaves the read loop (failure limit, exception, stop).
C30_ConnectionStateMachine ==
    /\ ConnectedOnlyAfterOpen
    /\ ConnectedHoldsOpenHandle
    /\ DisconnectedOutsideLoop

(***************************************************************************)
(* Claims about the reconnection of StreamProcessor.run                    *)
(***************************************************************************)
\* 5 s times 1.5 to the k, rounded down to a delay unit
RunDelayAfter(k) == (run_initial_retry_delay * Pow(3, k)) \div Pow(2, k)

LastN(seq, n) ==
    IF Len(seq) <= n THEN seq
    ELSE [i \in 1..n |-> seq[Len(seq) - n + i]]

\* C32: the history of durations of the processing loop never holds more
\* than 10 entries: it always equals the durations of the (up to) 10
\* iterations completed last, in order, the oldest being evicted when an
\* 11th is recorded, and the skip count of an iteration is computed from the
\* mean of exactly those.
C32_HistoryIsLastTen ==
    /\ Len(processing_times) <= 10
    /\ processing_times = LastN(sk_all, 10)
    /\ sk_pc = "process" =>
          max_frames_to_skip = frames_to_skip(LastN(sk_all, 10))

\* twelve durations were recorded, the two oldest differ from the third and
\* have left the history
C32_Witness ==
    /\ Len(sk_all) = 12
    /\ sk_all[1] # sk_all[3]
    /\ sk_all[2] # sk_all[3]
    /\ Len(processing_times) = 10
    /\ processing_times[1] = sk_all[3]
    /\ sk_pc = "process"

(***************************************************************************)
(* Claims about the workers' reports and their task_done() calls           *)
(***************************************************************************)
\* worker w ends its work on an item in this step
ItemEnds(w) == st_pc[w] \in {"task_done", "except"} /\ st_pc'[w] = "get"

\* C33: after each item a worker dequeues, whether its I/O succeeded or
\* failed, the worker reports the current queue depths and the measured wait
\* to the collector before it ends its work on the item; after each timeout
\* on an empty queue it reports a wait of zero.
C33_EveryItemIsReported ==
    [][\A w \in Workers :
          /\ ItemEnds(w) => st_reported[w]
          /\ (st_pc[w] = "report" /\ st_pc'[w] # "report") =>
                /\ queue_status'._db_queue_size = st_queue.db
                /\ queue_status'._file_queue_size = st_queue.file
                /\ w = "db" => queue_status'._db_queue_wait_time = st_wait.db
                /\ w = "file" =>
                      queue_status'._file_queue_wait_time = st_wait.file
          /\ (st_pc[w] = "empty" /\ st_pc'[w] # "empty") =>
                /\ queue_status'._db_queue_wait_time = 0
                /\ queue_status'._file_queue_wait_time = 0]_vars

\* 1 while worker w holds an item it has dequeued and not yet marked done
InFlight(w) ==
    IF st_pc[w] \in {"work", "report", "task_done", "except"} THEN 1 ELSE 0

\* C37: each worker calls task_done() exactly once for every item it
\* dequeues, after the work succeeded and in the exception handler alike,
\* and never after a timeout: the unfinished-task count of each queue is the
\* number of items queued plus the item in flight, and task_done() has
\* never been called more often than items were dequeued.
C37_TaskDoneOncePerItem ==
    /\ [](\A w \in Workers :
            /\ st_unfinished[w] = st_queue[w] + InFlight(w)
            /\ st_done[w] + InFlight(w) = st_dequeued[w]
            /\ st_pc[w] # "dead")
    /\ [][\A w \in Workers :
            /\ ItemEnds(w) => st_done'[w] = st_done[w] + 1
            /\ st_done'[w] # st_done[w] => ItemEnds(w)]_vars

\* the database worker has ended an item in its exception handler and has
\* then run into a timeout, the file worker has ended one after its report;
\* no task is unfinished
C37_Witness ==
    /\ st_done = [db |-> 1, file |-> 1]
    /\ ~ st_reported.db
    /\ st_reported.file
    /\ st_pc = [db |-> "empty", file |-> "get"]
    /\ st_unfinished = [db |-> 0, file |-> 0]

\* worker w makes a report in this step
Reports(w) == st_pc[w] \in {"report", "empty"} /\ st_pc'[w] # st_pc[w]

\* C38: a wait that a worker reported for its own queue stays visible in
\* get_queue_status() until the next report of that same worker: no report
\* of the other worker or of the processing loop changes it.
C38_WaitTimeStaysVisible ==
    [][/\ get_queue_status'.db_queue.wait_time
              # get_queue_status.db_queue.wait_time => Reports("db")
       /\ get_queue_status'.file_queue.wait_time
              # get_queue_status.file_queue.wait_time => Reports("file")]_vars

\* the iteration is at _save_frame_to_database_if_needed and the interval
\* has elapsed
SnapshotDue ==
    /\ sn_pc = "snapshot"
    /\ sn_now - sn_last_frame_save_time >= frame_save_interval

\* C35: a periodic snapshot whose enqueue is dropped because the database
\* queue is full is not retried: the attempt sets the last-snapshot time
\* whether or not the frame is queued, and a snapshot is queued only by an
\* attempt made a full interval after the last-snapshot time, so that the
\* next one is attempted only a full interval after the dropped one.
C35_DroppedSnapshotIsNotRetried ==
    [][/\ (SnapshotDue /\ sn_pc' # sn_pc) =>
             /\ sn_last_frame_save_time' = sn_now
             /\ Len(sn_db_queue) >= queue_maxsize =>
                   /\ sn_db_queue' = sn_db_queue
                   /\ sn_enqueued_at' = sn_enqueued_at
       /\ ~ SnapshotDue =>
             /\ sn_last_frame_save_time' = sn_last_frame_save_time
             /\ sn_enqueued_at' = sn_enqueued_at
       /\ sn_enqueued_at' # sn_enqueued_at =>
             sn_enqueued_at' = Append(sn_enqueued_at, sn_now)]_vars

\* the snapshot of the first iteration was queued, the one due an interval
\* later met a full queue, and the next one was queued two intervals after
\* the first
C35_Witness ==
    /\ sn_due_not_enqueued = "queue full"
    /\ sn_enqueued_at = <<StartTime, StartTime + 2 * frame_save_interval>>
    /\ sn_last_frame_save_time = StartTime + 2 * frame_save_interval

(***************************************************************************)
(* Claims about the counters of the frame slot                             *)
(***************************************************************************)
\* C36: in continuous mode, in every state in which the acquisition thread
\* does not hold the lock of the frame slot, so in every state a caller
\* observes under that lock, frames_read equals frame_number, frames_dropped
\* is at most frames_read, and the slot holds a frame exactly when
\* frame_number >= 1; none of the three counters ever decreases.
C36_SlotCountersAgree ==
    /\ []((mode = "continuous" /\ _lock # "acq") =>
            /\ _frames_read = _frame_number
            /\ _frames_dropped <= _frames_read
            /\ (_frame # <<>>) <=> (_frame_number >= 1))
    /\ [][/\ _frames_read' >= _frames_read
          /\ _frame_number' >= _frame_number
          /\ _frames_dropped' >= _frames_dropped]_vars

\* get_latest_frame() holds the lock over a slot that was written twice,
\* the second write having replaced the frame of the first
C36_Witness ==
    /\ mode = "continuous"
    /\ _lock = "client"
    /\ client_pc = "have_frame"
    /\ _frame_number = 2
    /\ _frames_read = 2
    /\ _frames_dropped = 1

(***************************************************************************)
(* Claims about the locks of the shared resources                          *)
(***************************************************************************)
\* the locks activity a holds
HeldBy(a) == {l \in Locks : lk_holder[l] = a}

\* activity a is at an acquisition of a lock that is held
Blocked(a) ==
    /\ lk_todo[a] # <<>>
    /\ Head(lk_todo[a]).op = "acq"
    /\ lk_holder[Head(lk_todo[a]).lock] # "none"

\* C34: no activity ever holds two of the locks of the shared resources at
\* once (the lock of the frame slot, the mutex of either work queue, the
\* lock of the collector), and no operation of the collector acquires the
\* collector's lock while it holds it, get_all_data included; hence the
\* acquisition thread, the processing loop, the two workers and the
\* observers cannot deadlock: whoever holds a lock that somebody waits for
\* is not waiting itself.
C34_NoNestedLocks ==
    \A a \in Activities :
        /\ Cardinality(HeldBy(a)) <= 1
        /\ (lk_todo[a] # <<>> /\ Head(lk_todo[a]).op = "acq") =>
              HeldBy(a) = {}
        /\ Blocked(a) => ~ Blocked(lk_holder[Head(lk_todo[a]).lock])

\* every lock is held, each by another activity, get_all_data is between
\* two of its getters, and the processing loop waits for the collector's
\* lock to make its report
C34_Witness ==
    /\ lk_holder = [frame_slot |-> "reader", db_queue |-> "db_worker",
                    file_queue |-> "file_worker", collector |-> "observer"]
    /\ Len(lk_todo["observer"]) = 5
    /\ lk_todo["run"] = Call_collector
    /\ Blocked("run")
    /\ Blocked("client")

(***************************************************************************)
(* Claims about get_all_data                                               *)
(***************************************************************************)
\* C39: get_all_data() returns a mutually consistent snapshot also while
\* writers run: total_frames_processed, frames_skipped and is_streaming in
\* its 'status' part equal those in its 'metrics' part, and the number of
\* processing times behind the metrics is that total_frames_processed, up
\* to the capacity of the history.
C39_AllDataIsConsistent ==
    all_data # <<>> =>
        /\ all_data.status.total_frames_processed
              = all_data.metrics.total_frames_processed
        /\ all_data.status.frames_skipped = all_data.metrics.frames_skipped
        /\ all_data.status.is_streaming = all_data.metrics.is_streaming
        /\ all_data.metrics.times
              = Min(all_data.metrics.total_frames_processed,
                    self_max_history)

====
